---- MODULE Spec2Model ----
(***************************************************************************)
(* makefmt: the line-classification parser, the writer, the formatting     *)
(* rules and their pipeline, and the Myers unified diff.                   *)
(*                                                                         *)
(* A Go string is a sequence of one-character strings, so that indexing,   *)
(* trimming, splitting and joining are computed as the code computes them. *)
(***************************************************************************)
EXTENDS Integers, Sequences, FiniteSets, TLC

VARIABLES
    pc,        \* position of the formatting run (parse / run / written ...)
    src,       \* the input text of the current pass
    cfg,       \* config.FormatterConfig
    lines,     \* parser: splitLines(src)
    lineNum,   \* parser state.lineNum (0-based cursor)
    inRule,    \* parser state.inRule
    inDefine,  \* parser state.inDefine
    nodes,     \* parser state.nodes, then the sequence the rules work on
    panicked,  \* TRUE once an index or slice expression was out of range
    ruleIdx,   \* formatter.Run: index of the next rule of the registry
    out,       \* formatter.Write result of the current pass
    pass,      \* 1 for the first formatting run, 2 for the run on its output
    out1,      \* output of the first pass
    input,     \* single-rule runs: the node sequence handed to Format
    applied,   \* single-rule runs: Name() of the rule that ran
    dentry,    \* diff: the function that was called, Unified or myers
    dpc,       \* diff: position in Unified
    oldText,   \* diff: Unified's oldText
    newText,   \* diff: Unified's newText
    dstep,     \* diff: myers' loop variable d
    dv,        \* diff: myers' slice v
    trace,     \* diff: myers' trace
    edits,     \* diff: the edit script
    hunks,     \* diff: buildHunks result
    diffOut,   \* diff: Unified's return value
    opts,      \* runner: the Options Run is called with
    loadErr,   \* runner: config.Load returns an error
    disk,      \* runner: the files by path (exists, content, writable)
    stdin,     \* runner: os.Stdin (readable, content)
    rpc,       \* runner: position in Run
    fileIdx,   \* runner: index of the next file of opts.Files
    exitCode,  \* runner: Run's exitCode, then its return value
    calls,     \* runner: the runFile calls made, path and returned code
    stdout,    \* runner: what was written to opts.Stdout
    stderr     \* runner: what was written to opts.Stderr, one entry per call

vars == <<pc, src, cfg, lines, lineNum, inRule, inDefine, nodes, panicked,
          ruleIdx, out, pass, out1, input, applied,
          dentry, dpc, oldText, newText, dstep, dv, trace, edits, hunks, diffOut,
          opts, loadErr, disk, stdin, rpc, fileIdx, exitCode, calls, stdout, stderr>>

fmtVars  == <<pc, src, cfg, lines, lineNum, inRule, inDefine, nodes, panicked,
              ruleIdx, out, pass, out1, input, applied>>
diffVars == <<dentry, dpc, oldText, newText, dstep, dv, trace, edits, hunks, diffOut>>
runVars  == <<opts, loadErr, disk, stdin, rpc, fileIdx, exitCode, calls, stdout, stderr>>

(***************************************************************************)
(* Package strings, on sequences of characters.                            *)
(***************************************************************************)
Max2(a, b) == IF a >= b THEN a ELSE b
Min2(a, b) == IF a <= b THEN a ELSE b

\* The cutset " \t" the code passes to strings.TrimRight.
SpaceTab == {" ", "\t"}
\* unicode.IsSpace, as strings.TrimSpace and strings.Fields use it.
IsSpace == {" ", "\t", "\n", "\r"}

TrimRight(s, cut) ==
    LET keep == {i \in 1..Len(s) : s[i] \notin cut}
    IN  IF keep = {} THEN <<>>
        ELSE SubSeq(s, 1, CHOOSE i \in keep : \A j \in keep : j <= i)

TrimLeft(s, cut) ==
    LET keep == {i \in 1..Len(s) : s[i] \notin cut}
    IN  IF keep = {} THEN <<>>
        ELSE SubSeq(s, CHOOSE i \in keep : \A j \in keep : i <= j, Len(s))

TrimSpace(s) == TrimLeft(TrimRight(s, IsSpace), IsSpace)

HasPrefix(s, p) == Len(s) >= Len(p) /\ SubSeq(s, 1, Len(p)) = p
HasSuffix(s, p) == Len(s) >= Len(p) /\ SubSeq(s, Len(s) - Len(p) + 1, Len(s)) = p
TrimPrefix(s, p) == IF HasPrefix(s, p) THEN SubSeq(s, Len(p) + 1, Len(s)) ELSE s

\* strings.Index: the 0-based byte index of the first occurrence, or -1.
Index(s, sub) ==
    LET at == {i \in 0..(Len(s) - Len(sub)) : SubSeq(s, i + 1, i + Len(sub)) = sub}
    IN  IF at = {} THEN -1 ELSE CHOOSE i \in at : \A j \in at : i <= j

Contains(s, sub) == Index(s, sub) >= 0
ContainsAny(s, chars) == \E i \in 1..Len(s) : s[i] \in chars

\* s[from:] and s[:to] with Go's 0-based offsets.
From(s, from) == SubSeq(s, from + 1, Len(s))
Upto(s, to) == SubSeq(s, 1, to)

RECURSIVE Repeat(_, _)
Repeat(s, n) == IF n <= 0 THEN <<>> ELSE s \o Repeat(s, n - 1)

RECURSIVE Join(_, _)
Join(parts, sep) ==
    IF parts = <<>> THEN <<>>
    ELSE IF Len(parts) = 1 THEN parts[1]
    ELSE parts[1] \o sep \o Join(Tail(parts), sep)

\* The concatenation of the parts (successive WriteString calls).
RECURSIVE Concat(_)
Concat(parts) == IF parts = <<>> THEN <<>> ELSE parts[1] \o Concat(Tail(parts))

\* strings.Split(s, sep) for a one-character separator: always at least one part.
RECURSIVE Split(_, _)
Split(s, sep) ==
    LET i == Index(s, <<sep>>)
    IN  IF i < 0 THEN <<s>>
        ELSE <<Upto(s, i)>> \o Split(From(s, i + 1), sep)

\* strings.SplitAfter(s, "\n"): the separator stays at the end of each part.
RECURSIVE SplitAfter(_, _)
SplitAfter(s, sep) ==
    LET i == Index(s, <<sep>>)
    IN  IF i < 0 THEN <<s>>
        ELSE <<Upto(s, i + 1)>> \o SplitAfter(From(s, i + 1), sep)

\* strings.Fields: the maximal runs of non-space characters.
RECURSIVE Fields(_)
Fields(s) ==
    LET t == TrimLeft(s, IsSpace)
        ends == {i \in 1..Len(t) : t[i] \in IsSpace}
        e == IF ends = {} THEN Len(t) + 1 ELSE CHOOSE i \in ends : \A j \in ends : i <= j
    IN  IF t = <<>> THEN <<>>
        ELSE <<SubSeq(t, 1, e - 1)>> \o Fields(SubSeq(t, e, Len(t)))

(***************************************************************************)
(* Keywords of the parser.                                                 *)
(***************************************************************************)
assignOps == << <<":", ":", "=">>, <<"!", "=">>, <<"?", "=">>, <<"+", "=">>,
                <<":", "=">>, <<"=">> >>

kwIfeq   == <<"i", "f", "e", "q">>
kwIfneq  == <<"i", "f", "n", "e", "q">>
kwIfdef  == <<"i", "f", "d", "e", "f">>
kwIfndef == <<"i", "f", "n", "d", "e", "f">>
directiveElse  == <<"e", "l", "s", "e">>
directiveEndif == <<"e", "n", "d", "i", "f">>
conditionalKeywords == {kwIfeq, kwIfneq, kwIfdef, kwIfndef, directiveElse, directiveEndif}

includeKeywords ==
    { <<"i", "n", "c", "l", "u", "d", "e">>,
      <<"-", "i", "n", "c", "l", "u", "d", "e">>,
      <<"s", "i", "n", "c", "l", "u", "d", "e">> }

kwOverride == <<"o", "v", "e", "r", "r", "i", "d", "e">>
directiveKeywords ==
    { <<".", "P", "H", "O", "N", "Y">>,
      <<".", "D", "E", "F", "A", "U", "L", "T", "_", "G", "O", "A", "L">>,
      <<".", "S", "U", "F", "F", "I", "X", "E", "S">>,
      <<".", "D", "E", "L", "E", "T", "E", "_", "O", "N", "_", "E", "R", "R", "O", "R">>,
      <<".", "S", "E", "C", "O", "N", "D", "A", "R", "Y">>,
      <<".", "P", "R", "E", "C", "I", "O", "U", "S">>,
      <<".", "I", "N", "T", "E", "R", "M", "E", "D", "I", "A", "T", "E">>,
      <<".", "N", "O", "T", "P", "A", "R", "A", "L", "L", "E", "L">>,
      <<".", "O", "N", "E", "S", "H", "E", "L", "L">>,
      <<".", "P", "O", "S", "I", "X">>,
      <<".", "S", "I", "L", "E", "N", "T">>,
      <<".", "I", "G", "N", "O", "R", "E">>,
      <<".", "E", "X", "P", "O", "R", "T", "_", "A", "L", "L", "_", "V", "A", "R", "I", "A", "B", "L", "E", "S">>,
      <<"e", "x", "p", "o", "r", "t">>,
      <<"u", "n", "e", "x", "p", "o", "r", "t">>,
      <<"v", "p", "a", "t", "h">>,
      kwOverride }

kwDefine == <<"d", "e", "f", "i", "n", "e">>
kwEndef  == <<"e", "n", "d", "e", "f">>

(***************************************************************************)
(* The node model (parser.Node, parser.NodeFields).  ptr stands for the    *)
(* address of the node object: Parse gives every node its own, Clone a     *)
(* fresh one.                                                              *)
(***************************************************************************)
NodeTypes == {"Comment", "SectionHeader", "BannerComment", "BlankLine", "Assignment",
              "Rule", "Recipe", "Conditional", "Include", "Directive", "Raw"}

NodeFields ==
    [VarName |-> <<>>, AssignOp |-> <<>>, VarValue |-> <<>>,
     Targets |-> <<>>, Prerequisites |-> <<>>, OrderOnly |-> <<>>, InlineHelp |-> <<>>,
     Directive |-> <<>>, Condition |-> <<>>,
     IncludeType |-> <<>>, Paths |-> <<>>,
     Text |-> <<>>, Inline |-> FALSE, Prefix |-> <<>>]

\* &Node{Type: t, Raw: raw}: every other field has its zero value.
Node(t, raw) ==
    [Type |-> t, Line |-> 0, Raw |-> raw, Children |-> <<>>, Fields |-> NodeFields, ptr |-> <<>>]

\* The node itself, at its own address, in the place of a copy.
CloneInPlace(n) == n

\* Clone: a deep copy at a fresh address.
RECURSIVE Clone(_)
Clone(n) ==
    [n EXCEPT !.ptr = Append(@, "clone"),
              !.Children = [i \in 1..Len(n.Children) |-> Clone(n.Children[i])]]

\* The nil *Node the try* functions return.
Nil == Node("nil", <<>>)

(***************************************************************************)
(* The parser (internal/parser/parser.go).                                 *)
(***************************************************************************)
\* splitLines: strings.Split(src, "\n") without the empty last element.
splitLines(s) ==
    IF s = <<>> THEN <<>>
    ELSE LET ls == Split(s, "\n")
         IN  IF Len(ls) > 0 /\ ls[Len(ls)] = <<>> THEN SubSeq(ls, 1, Len(ls) - 1) ELSE ls

\* hasContinuation (parser): the line ends with a backslash, trailing blanks aside.
hasContinuation(line) == HasSuffix(TrimRight(line, SpaceTab), <<"\\">>)

\* The index (0-based) after the run of continued lines that starts at start.
RECURSIVE continuationEnd(_, _)
continuationEnd(ls, i) ==
    IF i < Len(ls) /\ hasContinuation(ls[i + 1]) THEN continuationEnd(ls, i + 1) ELSE i

\* The final line taken without the bound check.
hasFinalLineUnchecked(ls, i) == TRUE

\* The final "if i < len(lines)" of joinContinuations: is there a line after the run?
hasFinalLine(ls, i) == i < Len(ls)

\* joinContinuations: the joined logical line and the number of lines consumed.
\* oob: the function would index lines out of range.
joinContinuations(ls, start) ==
    IF start >= Len(ls) THEN [joined |-> <<>>, count |-> 1, oob |-> TRUE]
    ELSE IF ~hasContinuation(ls[start + 1])
         THEN [joined |-> ls[start + 1], count |-> 1, oob |-> FALSE]
    ELSE LET e == continuationEnd(ls, start)
             stripped == [k \in 1..(e - start) |->
                            LET line == TrimRight(ls[start + k], SpaceTab)
                            IN  Upto(line, Len(line) - 1)]
             final == hasFinalLine(ls, e)
             parts == IF final /\ e < Len(ls) THEN Append(stripped, ls[e + 1]) ELSE stripped
             i == IF final THEN e + 1 ELSE e
         IN  [joined |-> Join(parts, <<" ">>), count |-> i - start,
              oob |-> final /\ e >= Len(ls)]

\* bannerRe: ^#+$ | ^#\s*[=\-#]{3,}\s*$ | ^#{2,}\s+.*\s+#{2,}$
AllIn(s, a, b, set) == \A i \in a..b : s[i] \in set
bannerRe(s) ==
    LET n == Len(s)
        reSpace == {" ", "\t", "\n", "\r"}
    IN  \/ n >= 1 /\ AllIn(s, 1, n, {"#"})
        \/ /\ n >= 1 /\ s[1] = "#"
           /\ \E i \in 1..n : \E j \in (i + 3)..n :
                 /\ AllIn(s, 2, i, reSpace)
                 /\ AllIn(s, i + 1, j, {"=", "-", "#"})
                 /\ AllIn(s, j + 1, n, reSpace)
        \/ \E a \in 2..n : \E b \in (a + 1)..n : \E c \in b..n : \E d \in (c + 1)..(n - 2) :
                 /\ AllIn(s, 1, a, {"#"})
                 /\ AllIn(s, a + 1, b, reSpace)
                 /\ AllIn(s, c + 1, d, reSpace)
                 /\ AllIn(s, d + 1, n, {"#"})

isBannerComment(trimmed) ==
    IF ~HasPrefix(trimmed, <<"#">>) THEN FALSE
    ELSE IF trimmed = <<"#">> THEN FALSE
    ELSE bannerRe(trimmed)

parseComment(trimmed, raw) ==
    LET prefix == IF HasPrefix(trimmed, <<"#", "#">>) /\ ~HasPrefix(trimmed, <<"#", "#", "@">>)
                  THEN <<"#", "#">> ELSE <<"#">>
        text == TrimSpace(TrimPrefix(trimmed, prefix))
    IN  [Node("Comment", raw) EXCEPT !.Fields.Text = text, !.Fields.Prefix = prefix]

\* keyword, keyword+" ..." or keyword+"\t...".
StartsWithKeyword(trimmed, keyword) ==
    \/ trimmed = keyword
    \/ HasPrefix(trimmed, keyword \o <<" ">>)
    \/ HasPrefix(trimmed, keyword \o <<"\t">>)

\* The map is ranged over in any order; at most one keyword matches a line.
tryConditional(trimmed, raw) ==
    LET hit == {kw \in conditionalKeywords : StartsWithKeyword(trimmed, kw)}
    IN  IF hit = {} THEN Nil
        ELSE LET keyword == CHOOSE kw \in hit : TRUE
                 condition == IF Len(trimmed) > Len(keyword)
                              THEN TrimSpace(From(trimmed, Len(keyword))) ELSE <<>>
             IN  [Node("Conditional", raw) EXCEPT !.Fields.Directive = keyword,
                                                   !.Fields.Condition = condition]

tryInclude(trimmed, raw) ==
    LET hit == {kw \in includeKeywords : StartsWithKeyword(trimmed, kw)}
    IN  IF hit = {} THEN Nil
        ELSE LET keyword == CHOOSE kw \in hit : TRUE
                 pathStr == IF Len(trimmed) > Len(keyword)
                            THEN TrimSpace(From(trimmed, Len(keyword))) ELSE <<>>
                 paths == IF pathStr # <<>> THEN Fields(pathStr) ELSE <<>>
             IN  [Node("Include", raw) EXCEPT !.Fields.IncludeType = keyword,
                                               !.Fields.Paths = paths]

tryDirective(trimmed, raw) ==
    LET at == {i \in 1..Len(trimmed) : trimmed[i] \in {" ", "\t", ":"}}
        firstWord == IF at = {} THEN trimmed
                     ELSE Upto(trimmed, (CHOOSE i \in at : \A j \in at : i <= j) - 1)
    IN  IF firstWord \in directiveKeywords
        THEN [Node("Directive", raw) EXCEPT !.Fields.Text = trimmed]
        ELSE Nil

\* tryAssignment: the loop over assignOps from the k-th operator on.
RECURSIVE tryAssignmentFrom(_, _, _)
tryAssignmentFrom(k, trimmed, raw) ==
    IF k > Len(assignOps) THEN Nil
    ELSE
    LET op == assignOps[k]
        idx == Index(trimmed, op)
        continue == tryAssignmentFrom(k + 1, trimmed, raw)
        name0 == TrimSpace(Upto(trimmed, idx))
        spaced == ContainsAny(name0, {" ", "\t"})
        parts == Fields(name0)
        isOverride == Len(parts) = 2 /\ parts[1] = kwOverride
        varName == IF spaced THEN kwOverride \o <<" ">> \o parts[2] ELSE name0
        afterOp == idx + Len(op)
        varValue == IF afterOp < Len(trimmed) THEN TrimSpace(From(trimmed, afterOp)) ELSE <<>>
    IN  IF idx < 0 THEN continue
        ELSE IF op = <<"=">> /\ idx > 0 /\ trimmed[idx] \in {":", "?", "+", "!"} THEN continue
        ELSE IF op = <<":", "=">> /\ idx > 0 /\ trimmed[idx] = ":" THEN continue
        ELSE IF name0 = <<>> THEN continue
        ELSE IF spaced /\ ~isOverride THEN continue
        ELSE IF Contains(varName, <<":">>) /\ op = <<"=">> THEN continue
        ELSE [Node("Assignment", raw) EXCEPT !.Fields.VarName = varName,
                                              !.Fields.AssignOp = op,
                                              !.Fields.VarValue = varValue]

tryAssignment(trimmed, raw) == tryAssignmentFrom(1, trimmed, raw)

findRuleColon(line) ==
    IF \E k \in 1..Len(assignOps) : Contains(line, assignOps[k]) THEN -1
    ELSE Index(line, <<":">>)

tryRule(trimmed, raw) ==
    LET colonIdx == findRuleColon(trimmed)
        targetStr == TrimSpace(Upto(trimmed, colonIdx))
        rest0 == IF colonIdx + 1 < Len(trimmed) THEN TrimSpace(From(trimmed, colonIdx + 1)) ELSE <<>>
        helpIdx == Index(rest0, <<"#", "#">>)
        inlineHelp == IF helpIdx >= 0 THEN TrimSpace(From(rest0, helpIdx + 2)) ELSE <<>>
        rest == IF helpIdx >= 0 THEN TrimSpace(Upto(rest0, helpIdx)) ELSE rest0
        pipeIdx == Index(rest, <<"|">>)
        prereqStr == TrimSpace(Upto(rest, pipeIdx))
        orderStr == TrimSpace(From(rest, pipeIdx + 1))
        prerequisites == IF pipeIdx >= 0
                         THEN (IF prereqStr # <<>> THEN Fields(prereqStr) ELSE <<>>)
                         ELSE (IF rest # <<>> THEN Fields(rest) ELSE <<>>)
        orderOnly == IF pipeIdx >= 0 /\ orderStr # <<>> THEN Fields(orderStr) ELSE <<>>
    IN  IF colonIdx < 0 THEN Nil
        ELSE IF targetStr = <<>> THEN Nil
        ELSE [Node("Rule", raw) EXCEPT !.Fields.Targets = Fields(targetStr),
                                        !.Fields.Prerequisites = prerequisites,
                                        !.Fields.OrderOnly = orderOnly,
                                        !.Fields.InlineHelp = inlineHelp]

\* classifyLine: the node of one (possibly joined) line, and whether the line
\* opens a define block (the code sets p.inDefine there).
classifyLine(pInRule, joined, raw) ==
    LET trimmed == TrimSpace(joined)
        plain(n) == [node |-> n, define |-> FALSE]
        cond == tryConditional(trimmed, raw)
        incl == tryInclude(trimmed, raw)
        dirv == tryDirective(trimmed, raw)
        asgn == tryAssignment(trimmed, raw)
        rule == tryRule(trimmed, raw)
    IN  IF trimmed = <<>> THEN plain(Node("BlankLine", raw))
        ELSE IF HasPrefix(trimmed, kwDefine \o <<" ">>) \/ trimmed = kwDefine
             THEN [node |-> Node("Raw", raw), define |-> TRUE]
        ELSE IF HasPrefix(trimmed, <<"#", "#", "@">>)
             THEN plain([Node("SectionHeader", raw) EXCEPT
                           !.Fields.Text = TrimSpace(From(trimmed, 3)),
                           !.Fields.Prefix = <<"#", "#", "@">>])
        ELSE IF isBannerComment(trimmed)
             THEN plain([Node("BannerComment", raw) EXCEPT !.Fields.Text = trimmed])
        ELSE IF HasPrefix(trimmed, <<"#">>) THEN plain(parseComment(trimmed, raw))
        ELSE IF HasPrefix(joined, <<"\t">>) /\ pInRule
             THEN plain([Node("Recipe", raw) EXCEPT !.Fields.Text = TrimPrefix(joined, <<"\t">>)])
        ELSE IF cond.Type # "nil" THEN plain(cond)
        ELSE IF incl.Type # "nil" THEN plain(incl)
        ELSE IF dirv.Type # "nil" THEN plain(dirv)
        ELSE IF asgn.Type # "nil" THEN plain(asgn)
        ELSE IF rule.Type # "nil" THEN plain(rule)
        ELSE plain(Node("Raw", raw))

\* The first rule of ns up to i, whatever lies between it and the recipe.
findRuleParentFirst(ns, i) ==
    LET rs == {j \in 1..i : ns[j].Type = "Rule"}
    IN  IF rs = {} THEN 0 ELSE CHOOSE j \in rs : \A k \in rs : j <= k

\* findRuleParent: the index (1-based) in ns of the rule that owns a recipe, 0 for nil.
RECURSIVE findRuleParentFrom(_, _)
findRuleParentFrom(ns, i) ==
    IF i < 1 THEN 0
    ELSE IF ns[i].Type = "Rule" THEN i
    ELSE IF ns[i].Type \in {"Recipe", "Comment", "BannerComment", "SectionHeader", "BlankLine"}
         THEN findRuleParentFrom(ns, i - 1)
    ELSE 0

findRuleParent(ns) == findRuleParentFrom(ns, Len(ns))

\* An addNode that keeps the rule context across a blank line.
addNodeBlankKeeps(p, node) ==
    LET parent == IF Len(p.nodes) > 0 THEN findRuleParent(p.nodes) ELSE 0
    IN  CASE node.Type = "Rule" ->
               [p EXCEPT !.inRule = TRUE, !.nodes = Append(@, node)]
          [] node.Type = "Recipe" ->
               IF parent > 0
               THEN [p EXCEPT !.nodes[parent].Children = Append(@, node)]
               ELSE [p EXCEPT !.nodes = Append(@, [node EXCEPT !.Type = "Raw"])]
          [] node.Type \in {"BlankLine", "Comment", "SectionHeader", "BannerComment"} ->
               [p EXCEPT !.nodes = Append(@, node)]
          [] OTHER ->
               [p EXCEPT !.inRule = FALSE, !.nodes = Append(@, node)]

\* addNode on the parser state p = [inRule, inDefine, nodes, lineNum].
addNode(p, node) ==
    LET parent == IF Len(p.nodes) > 0 THEN findRuleParent(p.nodes) ELSE 0
    IN  CASE node.Type = "Rule" ->
               [p EXCEPT !.inRule = TRUE, !.nodes = Append(@, node)]
          [] node.Type = "Recipe" ->
               IF parent > 0
               THEN [p EXCEPT !.nodes[parent].Children = Append(@, node)]
               ELSE [p EXCEPT !.nodes = Append(@, [node EXCEPT !.Type = "Raw"])]
          [] node.Type = "BlankLine" ->
               [p EXCEPT !.inRule = FALSE, !.nodes = Append(@, node)]
          [] node.Type \in {"Comment", "SectionHeader", "BannerComment"} ->
               [p EXCEPT !.nodes = Append(@, node)]
          [] OTHER ->
               [p EXCEPT !.inRule = FALSE, !.nodes = Append(@, node)]

\* A search for a line that is endef without any white space around it.
endefAtExact(ls, i) ==
    LET at == {j \in i..(Len(ls) - 1) : ls[j + 1] = kwEndef}
    IN  IF at = {} THEN Len(ls) ELSE CHOOSE j \in at : \A k \in at : j <= k

\* The index (0-based) of the first line from i on whose trimmed text is endef,
\* Len(ls) when there is none: where handleDefineBlock's loop stops.
RECURSIVE endefAt(_, _)
endefAt(ls, i) ==
    IF i >= Len(ls) THEN Len(ls)
    ELSE IF TrimSpace(ls[i + 1]) = kwEndef THEN i
    ELSE endefAt(ls, i + 1)

\* handleDefineBlock: the body joins the Raw of the define node, the last node.
handleDefineBlock(p, ls) ==
    IF Len(p.nodes) = 0 THEN [p EXCEPT !.panic = TRUE]
    ELSE
    LET stop == endefAt(ls, p.lineNum)
        last == IF stop < Len(ls) THEN stop + 1 ELSE Len(ls)
        rawParts == <<p.nodes[Len(p.nodes)].Raw>> \o SubSeq(ls, p.lineNum + 1, last)
    IN  [p EXCEPT !.nodes[Len(p.nodes)].Raw = Join(rawParts, <<"\n">>),
                  !.inDefine = FALSE,
                  !.lineNum = stop]

\* The cursor after one line was joined and classified: "p.lineNum += count - 1"
\* and the p.lineNum++ of the for statement.
advance(lineNo, count) == (IF count > 1 THEN lineNo + (count - 1) ELSE lineNo) + 1

\* One iteration of the loop of state.parse, with the for statement's increment.
parseIteration(p, ls) ==
    IF p.inDefine
    THEN LET q == handleDefineBlock(p, ls) IN [q EXCEPT !.lineNum = @ + 1]
    ELSE
    LET jc == joinContinuations(ls, p.lineNum)
        sliceOK == p.lineNum + jc.count <= Len(ls)
        raw == Join(SubSeq(ls, p.lineNum + 1, p.lineNum + jc.count), <<"\n">>)
        cl == classifyLine(p.inRule, jc.joined, raw)
        node == [cl.node EXCEPT !.Line = p.lineNum + 1, !.ptr = <<p.lineNum + 1>>]
        q == addNode([p EXCEPT !.inDefine = @ \/ cl.define], node)
    IN  IF jc.oob \/ ~sliceOK THEN [p EXCEPT !.panic = TRUE]
        ELSE [q EXCEPT !.lineNum = advance(p.lineNum, jc.count)]

ParserInit == [inRule |-> FALSE, inDefine |-> FALSE, nodes |-> <<>>, lineNum |-> 0,
               panic |-> FALSE]

\* Parse: the loop of state.parse run to its end.
RECURSIVE parseLoop(_, _)
parseLoop(p, ls) ==
    IF p.panic \/ p.lineNum >= Len(ls) THEN p ELSE parseLoop(parseIteration(p, ls), ls)

Parse(s) == parseLoop(ParserInit, splitLines(s)).nodes

(***************************************************************************)
(* The writer (formatter.Write).                                           *)
(***************************************************************************)
writeComment(n) ==
    n.Fields.Prefix \o (IF n.Fields.Text # <<>> THEN <<" ">> \o n.Fields.Text ELSE <<>>)

writeSectionHeader(n) ==
    n.Fields.Prefix \o (IF n.Fields.Text # <<>> THEN <<" ">> \o n.Fields.Text ELSE <<>>)

writeAssignment(n) ==
    n.Fields.VarName \o <<" ">> \o n.Fields.AssignOp
      \o (IF n.Fields.VarValue # <<>> THEN <<" ">> \o n.Fields.VarValue ELSE <<>>)

writeRule(n) ==
    Join(n.Fields.Targets, <<" ">>) \o <<":">>
      \o (IF Len(n.Fields.Prerequisites) > 0
          THEN <<" ">> \o Join(n.Fields.Prerequisites, <<" ">>) ELSE <<>>)
      \o (IF Len(n.Fields.OrderOnly) > 0
          THEN <<" ", "|", " ">> \o Join(n.Fields.OrderOnly, <<" ">>) ELSE <<>>)
      \o (IF n.Fields.InlineHelp # <<>>
          THEN <<" ", "#", "#", " ">> \o n.Fields.InlineHelp ELSE <<>>)

writeConditional(n) ==
    n.Fields.Directive \o (IF n.Fields.Condition # <<>> THEN <<" ">> \o n.Fields.Condition ELSE <<>>)

writeInclude(n) ==
    n.Fields.IncludeType
      \o (IF Len(n.Fields.Paths) > 0 THEN <<" ">> \o Join(n.Fields.Paths, <<" ">>) ELSE <<>>)

\* The text of a node without its children: Raw when set, else from the fields.
writeOwn(n) ==
    IF n.Raw # <<>> THEN n.Raw
    ELSE CASE n.Type = "BlankLine" -> <<>>
           [] n.Type = "Comment" -> writeComment(n)
           [] n.Type = "SectionHeader" -> writeSectionHeader(n)
           [] n.Type = "BannerComment" -> n.Fields.Text
           [] n.Type = "Assignment" -> writeAssignment(n)
           [] n.Type = "Rule" -> writeRule(n)
           [] n.Type = "Recipe" -> <<"\t">> \o n.Fields.Text
           [] n.Type = "Conditional" -> writeConditional(n)
           [] n.Type = "Include" -> writeInclude(n)
           [] n.Type = "Directive" -> n.Fields.Text
           [] OTHER -> n.Fields.Text

RECURSIVE writeNode(_)
RECURSIVE writeChildren(_, _)
writeChildren(n, i) ==
    IF i > Len(n.Children) THEN <<>>
    ELSE <<"\n">> \o writeNode(n.Children[i]) \o writeChildren(n, i + 1)

writeNode(n) == writeOwn(n) \o writeChildren(n, 1)

RECURSIVE Write(_)
Write(ns) ==
    IF ns = <<>> THEN <<>>
    ELSE writeNode(ns[1]) \o <<"\n">> \o Write(Tail(ns))

(***************************************************************************)
(* Configuration (config.FormatterConfig, the fields the rules read).      *)
(***************************************************************************)
DefaultMaxBlankLines == 2
DefaultBackslashColumn == 79
DefaultConditionalIndent == 2

DefaultConfig ==
    [MaxBlankLines |-> DefaultMaxBlankLines,
     InsertFinalNewline |-> TRUE,
     TrimTrailingWhitespace |-> TRUE,
     AlignAssignments |-> TRUE,
     AssignmentSpacing |-> "space",
     AlignBackslashContinuations |-> TRUE,
     BackslashColumn |-> DefaultBackslashColumn,
     SpaceAfterComment |-> TRUE,
     IndentConditionals |-> TRUE,
     ConditionalIndent |-> DefaultConditionalIndent]

(***************************************************************************)
(* The rules (package format).  Each Format is a function of the node      *)
(* sequence and the configuration.                                         *)
(***************************************************************************)
\* trim_trailing_whitespace
trimRawLines(raw) ==
    LET ls == Split(raw, "\n")
    IN  Join([i \in 1..Len(ls) |-> TrimRight(ls[i], SpaceTab)], <<"\n">>)

RECURSIVE trimNode(_)
trimNode(n) ==
    LET clone == Clone(n)
    IN  [clone EXCEPT
           !.Raw = IF @ # <<>> THEN trimRawLines(@) ELSE @,
           !.Fields.Text = TrimRight(@, SpaceTab),
           !.Fields.VarValue = TrimRight(@, SpaceTab),
           !.Fields.InlineHelp = TrimRight(@, SpaceTab),
           !.Fields.Condition = TrimRight(@, SpaceTab),
           !.Children = [i \in 1..Len(clone.Children) |-> trimNode(clone.Children[i])]]

TrailingWhitespaceFormat(ns, c) ==
    IF ~c.TrimTrailingWhitespace THEN ns
    ELSE [i \in 1..Len(ns) |-> trimNode(ns[i])]

\* insert_final_newline
RECURSIVE dropTrailingBlank(_)
dropTrailingBlank(ns) ==
    IF Len(ns) > 0 /\ ns[Len(ns)].Type = "BlankLine"
    THEN dropTrailingBlank(SubSeq(ns, 1, Len(ns) - 1))
    ELSE ns

FinalNewlineFormat(ns, c) ==
    IF ~c.InsertFinalNewline THEN ns
    ELSE IF Len(ns) = 0 THEN ns
    ELSE dropTrailingBlank(ns)

\* The loop with a counter that is never reset.
RECURSIVE blankLinesFromNoReset(_, _, _, _)
blankLinesFromNoReset(ns, i, blankCount, maxBlank) ==
    IF i > Len(ns) THEN <<>>
    ELSE IF ns[i].Type = "BlankLine"
         THEN (IF blankCount + 1 <= maxBlank THEN <<ns[i]>> ELSE <<>>)
                \o blankLinesFromNoReset(ns, i + 1, blankCount + 1, maxBlank)
         ELSE <<ns[i]>> \o blankLinesFromNoReset(ns, i + 1, blankCount, maxBlank)

\* max_blank_lines: the loop from node i on, with the run counter blankCount.
RECURSIVE blankLinesFrom(_, _, _, _)
blankLinesFrom(ns, i, blankCount, maxBlank) ==
    IF i > Len(ns) THEN <<>>
    ELSE IF ns[i].Type = "BlankLine"
         THEN (IF blankCount + 1 <= maxBlank THEN <<ns[i]>> ELSE <<>>)
                \o blankLinesFrom(ns, i + 1, blankCount + 1, maxBlank)
         ELSE <<ns[i]>> \o blankLinesFrom(ns, i + 1, 0, maxBlank)

BlankLinesFormat(ns, c) ==
    IF c.MaxBlankLines < 0 THEN ns
    ELSE blankLinesFrom(ns, 1, 0, c.MaxBlankLines)

\* assignment_spacing
\* A clone that keeps the source line in every mode.
normalizeAssignmentKeepRaw(n, mode) == Clone(n)

normalizeAssignment(n, mode) ==
    LET clone == Clone(n)
    IN  CASE mode = "space" -> [clone EXCEPT !.Raw = <<>>]
          [] mode = "no_space" ->
               [clone EXCEPT !.Raw = clone.Fields.VarName \o clone.Fields.AssignOp
                                       \o clone.Fields.VarValue]
          [] OTHER -> clone

AssignmentSpacingFormat(ns, c) ==
    IF c.AssignmentSpacing = "preserve" THEN ns
    ELSE [i \in 1..Len(ns) |->
            IF ns[i].Type = "Assignment"
            THEN normalizeAssignment(ns[i], c.AssignmentSpacing)
            ELSE ns[i]]

\* align_assignments
bareName(n) == TrimRight(n.Fields.VarName, {" "})

RECURSIVE maxNameLen(_)
maxNameLen(group) ==
    IF group = <<>> THEN 0
    ELSE Max2(Len(bareName(group[1])), maxNameLen(Tail(group)))

\* A clone with the name as it is, without padding.
alignNodeUnpadded(n, maxLen, spacingMode) ==
    LET clone == Clone(n)
    IN  IF spacingMode = "no_space"
        THEN [clone EXCEPT !.Raw = bareName(clone) \o clone.Fields.AssignOp \o clone.Fields.VarValue]
        ELSE [clone EXCEPT !.Fields.VarName = bareName(clone), !.Raw = <<>>]

\* The node alignGroup puts in the place of n, for the group's width maxLen.
alignNode(n, maxLen, spacingMode) ==
    LET clone == Clone(n)
        name == bareName(clone)
        padded == name \o Repeat(<<" ">>, maxLen - Len(name))
    IN  IF spacingMode = "no_space"
        THEN [clone EXCEPT !.Raw = padded \o clone.Fields.AssignOp \o clone.Fields.VarValue]
        ELSE [clone EXCEPT !.Fields.VarName = padded, !.Raw = <<>>]

alignGroup(group, spacingMode) ==
    [i \in 1..Len(group) |-> alignNode(group[i], maxNameLen(group), spacingMode)]

\* The index after the run of assignment nodes that starts at i.
RECURSIVE groupEnd(_, _)
groupEnd(ns, i) ==
    IF i <= Len(ns) /\ ns[i].Type = "Assignment" THEN groupEnd(ns, i + 1) ELSE i

RECURSIVE alignFrom(_, _, _)
alignFrom(ns, i, spacingMode) ==
    IF i > Len(ns) THEN <<>>
    ELSE IF ns[i].Type # "Assignment" THEN <<ns[i]>> \o alignFrom(ns, i + 1, spacingMode)
    ELSE LET e == groupEnd(ns, i)
             group == SubSeq(ns, i, e - 1)
         IN  (IF e - i > 1 THEN alignGroup(group, spacingMode) ELSE group)
               \o alignFrom(ns, e, spacingMode)

AlignAssignmentsFormat(ns, c) ==
    IF ~c.AlignAssignments THEN ns
    ELSE alignFrom(ns, 1, c.AssignmentSpacing)

\* align_backslash_continuations
\* hasContinuation of package format: some line of raw ends with a backslash.
rawHasContinuation(raw) ==
    LET ls == Split(raw, "\n")
    IN  \E i \in 1..Len(ls) : HasSuffix(TrimRight(ls[i], SpaceTab), <<"\\">>)

\* The content of a continuation line: the text before its trailing backslash.
lineContent(line) ==
    LET trimmed == TrimRight(line, SpaceTab)
    IN  TrimRight(Upto(trimmed, Len(trimmed) - 1), SpaceTab)

RECURSIVE maxContentWidth(_)
maxContentWidth(ls) ==
    IF ls = <<>> THEN 0
    ELSE IF HasSuffix(TrimRight(ls[1], SpaceTab), <<"\\">>)
         THEN Max2(Len(lineContent(ls[1])), maxContentWidth(Tail(ls)))
         ELSE maxContentWidth(Tail(ls))

\* The rewritten continuation line for the target column.
alignLine(line, targetCol) ==
    LET content == lineContent(line)
        padWidth == Max2(targetCol - 1 - Len(content), 1)
    IN  content \o Repeat(<<" ">>, padWidth) \o <<"\\">>

alignBackslashes(n, backslashCol) ==
    LET clone == Clone(n)
        ls == Split(clone.Raw, "\n")
        targetCol == IF backslashCol = 0 THEN maxContentWidth(ls) + 2 ELSE backslashCol
    IN  [clone EXCEPT !.Raw =
           Join([i \in 1..Len(ls) |->
                   IF HasSuffix(TrimRight(ls[i], SpaceTab), <<"\\">>)
                   THEN alignLine(ls[i], targetCol) ELSE ls[i]], <<"\n">>)]

BackslashAlignFormat(ns, c) ==
    IF ~c.AlignBackslashContinuations THEN ns
    ELSE [i \in 1..Len(ns) |->
            IF rawHasContinuation(ns[i].Raw)
            THEN alignBackslashes(ns[i], c.BackslashColumn)
            ELSE ns[i]]

\* space_after_comment
\* Every comment with the prefix "#", shebangs and the empty comment too.
shouldNormalizeAll(n) == n.Fields.Prefix = <<"#">>

shouldNormalize(n) ==
    LET raw == TrimSpace(n.Raw)
    IN  IF n.Fields.Prefix # <<"#">> THEN FALSE
        ELSE IF HasPrefix(raw, <<"#", "!">>) THEN FALSE
        ELSE IF raw = <<"#">> THEN FALSE
        ELSE TRUE

\* normalizeComment slices raw[1:], which is out of range for an empty raw.
normalizeCommentPanics(n) == Len(TrimSpace(n.Raw)) < 1

normalizeComment(n) ==
    LET raw == TrimSpace(n.Raw)
        clone == Clone(n)
    IN  IF Len(raw) > 1 /\ raw[2] = " " THEN n
        ELSE [clone EXCEPT !.Raw = <<"#", " ">> \o From(raw, 1),
                           !.Fields.Text = TrimSpace(From(raw, 1))]

CommentSpacingFormat(ns, c) ==
    IF ~c.SpaceAfterComment THEN ns
    ELSE [i \in 1..Len(ns) |->
            IF ns[i].Type = "Comment" /\ shouldNormalize(ns[i])
            THEN normalizeComment(ns[i])
            ELSE ns[i]]

CommentSpacingPanics(ns, c) ==
    /\ c.SpaceAfterComment
    /\ \E i \in 1..Len(ns) :
          ns[i].Type = "Comment" /\ shouldNormalize(ns[i]) /\ normalizeCommentPanics(ns[i])

\* indent_conditionals
isConditionalOpen(directive) == directive \in {kwIfeq, kwIfneq, kwIfdef, kwIfndef}

reconstructRaw(n) ==
    CASE n.Type = "Assignment" ->
           n.Fields.VarName \o <<" ">> \o n.Fields.AssignOp
             \o (IF n.Fields.VarValue # <<>> THEN <<" ">> \o n.Fields.VarValue ELSE <<>>)
      [] n.Type = "Comment" ->
           IF n.Fields.Text # <<>> THEN n.Fields.Prefix \o <<" ">> \o n.Fields.Text
           ELSE n.Fields.Prefix
      [] n.Type = "Conditional" ->
           IF n.Fields.Condition # <<>>
           THEN n.Fields.Directive \o <<" ">> \o n.Fields.Condition
           ELSE n.Fields.Directive
      [] n.Type = "Include" ->
           IF Len(n.Fields.Paths) > 0
           THEN n.Fields.IncludeType \o <<" ">> \o Join(n.Fields.Paths, <<" ">>)
           ELSE n.Fields.IncludeType
      [] n.Type = "Rule" ->
           Join(n.Fields.Targets, <<" ">>) \o <<":">>
             \o (IF Len(n.Fields.Prerequisites) > 0
                 THEN <<" ">> \o Join(n.Fields.Prerequisites, <<" ">>) ELSE <<>>)
             \o (IF n.Fields.InlineHelp # <<>>
                 THEN <<" ", "#", "#", " ">> \o n.Fields.InlineHelp ELSE <<>>)
      [] n.Type = "BlankLine" -> <<>>
      [] OTHER -> n.Fields.Text

applyIndent(n, indent, level) ==
    IF level <= 0 THEN n
    ELSE LET clone == Clone(n)
             raw == IF clone.Raw = <<>> THEN reconstructRaw(clone) ELSE clone.Raw
         IN  [clone EXCEPT !.Raw = Repeat(indent, level) \o raw]

\* A level that endif lowers without a floor.
nextLevelUnfloored(n, level) ==
    IF n.Type = "Conditional" /\ isConditionalOpen(n.Fields.Directive) THEN level + 1
    ELSE IF n.Type = "Conditional" /\ n.Fields.Directive = directiveEndif THEN level - 1
    ELSE level

\* The level after node n was handled at the given level.
nextLevel(n, level) ==
    IF n.Type = "Conditional" /\ isConditionalOpen(n.Fields.Directive) THEN level + 1
    ELSE IF n.Type = "Conditional" /\ n.Fields.Directive = directiveEndif
         THEN Max2(level - 1, 0)
    ELSE level

\* The node appended to the result for n at the given level.
indentNode(n, indent, level) ==
    IF n.Type = "Conditional" /\ isConditionalOpen(n.Fields.Directive)
    THEN applyIndent(n, indent, level)
    ELSE IF n.Type = "Conditional" /\ n.Fields.Directive = directiveElse
         THEN applyIndent(n, indent, level - 1)
    ELSE IF n.Type = "Conditional" /\ n.Fields.Directive = directiveEndif
         THEN applyIndent(n, indent, Max2(level - 1, 0))
    ELSE IF level > 0 THEN applyIndent(n, indent, level)
    ELSE n

RECURSIVE indentFrom(_, _, _, _)
indentFrom(ns, i, indent, level) ==
    IF i > Len(ns) THEN <<>>
    ELSE <<indentNode(ns[i], indent, level)>>
           \o indentFrom(ns, i + 1, indent, nextLevel(ns[i], level))

indentConditionals(ns, indent, level) == indentFrom(ns, 1, indent, level)

\* Format that looks at the flag only, not at the width.
ConditionalIndentFormatAnyWidth(ns, c) ==
    IF ~c.IndentConditionals THEN ns
    ELSE indentConditionals(ns, Repeat(<<" ">>, c.ConditionalIndent), 0)

ConditionalIndentFormat(ns, c) ==
    IF ~c.IndentConditionals \/ c.ConditionalIndent <= 0 THEN ns
    ELSE indentConditionals(ns, Repeat(<<" ">>, c.ConditionalIndent), 0)

\* preserve_banner_comments
BannerPreserveFormat(ns, c) == ns

(***************************************************************************)
(* The registry and the engine (rules.init, formatter.Run).                *)
(***************************************************************************)
\* The rules in the order init registers them.
FormatRules ==
    <<"trim_trailing_whitespace", "insert_final_newline", "max_blank_lines",
      "assignment_spacing", "align_backslash_continuations", "space_after_comment",
      "indent_conditionals", "preserve_banner_comments">>

\* rule.Format(ns, c) for the rule of the given Name().
Format(name, ns, c) ==
    CASE name = "trim_trailing_whitespace" -> TrailingWhitespaceFormat(ns, c)
      [] name = "insert_final_newline" -> FinalNewlineFormat(ns, c)
      [] name = "max_blank_lines" -> BlankLinesFormat(ns, c)
      [] name = "assignment_spacing" -> AssignmentSpacingFormat(ns, c)
      [] name = "align_assignments" -> AlignAssignmentsFormat(ns, c)
      [] name = "align_backslash_continuations" -> BackslashAlignFormat(ns, c)
      [] name = "space_after_comment" -> CommentSpacingFormat(ns, c)
      [] name = "indent_conditionals" -> ConditionalIndentFormat(ns, c)
      [] name = "preserve_banner_comments" -> BannerPreserveFormat(ns, c)

\* Whether rule.Format(ns, c) aborts on an out-of-range slice.
FormatPanics(name, ns, c) ==
    name = "space_after_comment" /\ CommentSpacingPanics(ns, c)

\* formatter.Run over the rules from index i on.
RECURSIVE RunFrom(_, _, _, _)
RunFrom(ns, c, rules, i) ==
    IF i > Len(rules) THEN ns
    ELSE RunFrom(Format(rules[i], ns, c), c, rules, i + 1)

Run(ns, c, rules) == RunFrom(ns, c, rules, 1)

\* runner.formatInput
formatInput(text, c, rules) == Write(Run(Parse(text), c, rules))

(***************************************************************************)
(* The diff engine (pkg/diff/diff.go).                                     *)
(***************************************************************************)
contextLines == 3

\* The lines without their terminators, as strings.Split would give them.
diffSplitLinesStripped(s) ==
    IF s = <<>> THEN <<>>
    ELSE LET ls == Split(s, "\n")
         IN  IF ls[Len(ls)] = <<>> THEN SubSeq(ls, 1, Len(ls) - 1) ELSE ls

\* splitLines of package diff: the lines with their terminators.
diffSplitLines(s) ==
    IF s = <<>> THEN <<>>
    ELSE LET ls == SplitAfter(s, "\n")
         IN  IF ls[Len(ls)] = <<>> THEN SubSeq(ls, 1, Len(ls) - 1) ELSE ls

\* edit{kind, oldIdx, newIdx}
Edit(kind, oldIdx, newIdx) == [kind |-> kind, oldIdx |-> oldIdx, newIdx |-> newIdx]

\* a[x] == b[y], the comparison of the diagonal walk.
sameLine(a, b, x, y) == a[x + 1] = b[y + 1]

\* The number of diagonal steps from (x, y): for x < n && y < m && a[x] == b[y].
RECURSIVE snake(_, _, _, _)
snake(a, b, x, y) ==
    IF x < Len(a) /\ y < Len(b) /\ sameLine(a, b, x, y)
    THEN 1 + snake(a, b, x + 1, y + 1) ELSE 0

\* A search that moves down on every diagonal but the last.
moveDownAlways(v, k, d, total) == k # d

\* "move down": take x from diagonal k+1 (an insert) rather than from k-1.
moveDown(v, k, d, total) ==
    k = -d \/ (k # d /\ v[k - 1 + total] < v[k + 1 + total])

\* if x >= n && y >= m: the end point is reached.
atEnd(x, y, n, m) == x >= n /\ y >= m

\* The loop over k = -d, -d+2, .., d of one step d, from k on: the updated v and
\* whether the end point was reached.
RECURSIVE kLoop(_, _, _, _, _)
kLoop(v, d, k, a, b) ==
    IF k > d THEN [v |-> v, found |-> FALSE]
    ELSE
    LET total == Len(a) + Len(b)
        x0 == IF moveDown(v, k, d, total) THEN v[k + 1 + total] ELSE v[k - 1 + total] + 1
        y0 == x0 - k
        len == snake(a, b, x0, y0)
        x == x0 + len
        y == y0 + len
        v2 == [v EXCEPT ![k + total] = x]
    IN  IF atEnd(x, y, Len(a), Len(b)) THEN [v |-> v2, found |-> TRUE]
        ELSE kLoop(v2, d, k + 2, a, b)

\* The equal edits of a diagonal walked back from (x, y) to (px, py).
RECURSIVE diagonal(_, _, _, _)
diagonal(x, y, px, py) ==
    IF x > px /\ y > py
    THEN <<Edit("equal", x - 1, y - 1)>> \o diagonal(x - 1, y - 1, px, py)
    ELSE <<>>

\* backtrack's loop from step down to 1, then the diagonal of d = 0: the edits
\* in the order they are appended (last edit first).
RECURSIVE backtrackFrom(_, _, _, _, _)
backtrackFrom(tr, step, x, y, total) ==
    IF step <= 0 THEN diagonal(x, y, 0, 0)
    ELSE
    LET v == tr[step + 1]
        k == x - y
        down == moveDown(v, k, step, total)
        prevK == IF down THEN k + 1 ELSE k - 1
        prevX == v[prevK + total]
        prevY == prevX - prevK
        diag == diagonal(x, y, prevX, prevY)
        x1 == x - Len(diag)
        y1 == y - Len(diag)
    IN  IF down
        THEN diag \o <<Edit("insert", -1, y1 - 1)>> \o backtrackFrom(tr, step - 1, x1, y1 - 1, total)
        ELSE diag \o <<Edit("delete", x1 - 1, -1)>> \o backtrackFrom(tr, step - 1, x1 - 1, y1, total)

Reverse(sq) == [i \in 1..Len(sq) |-> sq[Len(sq) + 1 - i]]

backtrack(tr, a, b, d, total) == Reverse(backtrackFrom(tr, d, Len(a), Len(b), total))

\* findChangeRegions: regions are [start, end], 0-based indices into edits.
RECURSIVE findChangeRegionsFrom(_, _, _)
findChangeRegionsFrom(es, i, regions) ==
    IF i >= Len(es) THEN regions
    ELSE IF es[i + 1].kind = "equal" THEN findChangeRegionsFrom(es, i + 1, regions)
    ELSE IF Len(regions) = 0 \/ i > regions[Len(regions)].end + 1
         THEN findChangeRegionsFrom(es, i + 1, Append(regions, [start |-> i, end |-> i]))
    ELSE findChangeRegionsFrom(es, i + 1, [regions EXCEPT ![Len(regions)].end = i])

findChangeRegions(es) == findChangeRegionsFrom(es, 0, <<>>)

\* No region merged with the one before it.
mergeRegionsFromNone(regions, i, merged) == regions

RECURSIVE mergeRegionsFrom(_, _, _)
mergeRegionsFrom(regions, i, merged) ==
    IF i > Len(regions) THEN merged
    ELSE IF Len(merged) > 0 /\ regions[i].start - merged[Len(merged)].end <= 2 * contextLines
         THEN mergeRegionsFrom(regions, i + 1, [merged EXCEPT ![Len(merged)].end = regions[i].end])
    ELSE mergeRegionsFrom(regions, i + 1, Append(merged, regions[i]))

mergeRegions(regions) == mergeRegionsFrom(regions, 1, <<>>)

findHunkStarts(es) ==
    LET olds == {i \in 1..Len(es) : es[i].oldIdx >= 0}
        news == {i \in 1..Len(es) : es[i].newIdx >= 0}
    IN  [oldStart |-> IF olds = {} THEN 0
                      ELSE es[CHOOSE i \in olds : \A j \in olds : i <= j].oldIdx,
         newStart |-> IF news = {} THEN 0
                      ELSE es[CHOOSE i \in news : \A j \in news : i <= j].newIdx]

\* A count that leaves the changed lines out.
countHunkLinesEqualOnly(es) ==
    [oldCount |-> Cardinality({i \in 1..Len(es) : es[i].kind = "equal"}),
     newCount |-> Cardinality({i \in 1..Len(es) : es[i].kind = "equal"})]

countHunkLines(es) ==
    [oldCount |-> Cardinality({i \in 1..Len(es) : es[i].kind \in {"equal", "delete"}}),
     newCount |-> Cardinality({i \in 1..Len(es) : es[i].kind \in {"equal", "insert"}})]

regionsToHunks(regions, es) ==
    [r \in 1..Len(regions) |->
       LET start == Max2(regions[r].start - contextLines, 0)
           end == Min2(regions[r].end + contextLines, Len(es) - 1)
           hes == SubSeq(es, start + 1, end + 1)
       IN  [oldStart |-> findHunkStarts(hes).oldStart,
            oldCount |-> countHunkLines(hes).oldCount,
            newStart |-> findHunkStarts(hes).newStart,
            newCount |-> countHunkLines(hes).newCount,
            edits |-> hes]]

buildHunks(es) ==
    IF Len(es) = 0 THEN <<>>
    ELSE regionsToHunks(mergeRegions(findChangeRegions(es)), es)

\* The line as it is, terminated or not.
ensureNewlineAsIs(line) == line

ensureNewline(line) == IF HasSuffix(line, <<"\n">>) THEN line ELSE line \o <<"\n">>

\* %d of fmt.Fprintf, for a number >= 0.
Digits == <<"0", "1", "2", "3", "4", "5", "6", "7", "8", "9">>
RECURSIVE Itoa(_)
Itoa(n) == IF n < 10 THEN <<Digits[n + 1]>> ELSE Itoa(n \div 10) \o <<Digits[(n % 10) + 1]>>

\* The line writeTo emits for one edit.
editLine(e, oldLines, newLines) ==
    CASE e.kind = "equal" -> <<" ">> \o ensureNewline(oldLines[e.oldIdx + 1])
      [] e.kind = "delete" -> <<"-">> \o ensureNewline(oldLines[e.oldIdx + 1])
      [] e.kind = "insert" -> <<"+">> \o ensureNewline(newLines[e.newIdx + 1])

hunkHeader(h) ==
    <<"@", "@", " ", "-">> \o Itoa(h.oldStart + 1) \o <<",">> \o Itoa(h.oldCount)
      \o <<" ", "+">> \o Itoa(h.newStart + 1) \o <<",">> \o Itoa(h.newCount)
      \o <<" ", "@", "@", "\n">>

\* hunk.writeTo
writeTo(h, oldLines, newLines) ==
    hunkHeader(h)
      \o Concat([i \in 1..Len(h.edits) |-> editLine(h.edits[i], oldLines, newLines)])

fileHeader(filename) ==
    <<"-", "-", "-", " ", "a", "/">> \o filename \o <<"\n">>
      \o <<"+", "+", "+", " ", "b", "/">> \o filename \o <<"\n">>

\* The file name Unified is called with: "f" when it is called on its own, the
\* path of the file, or "<stdin>", when the runner calls it.
StdinName == <<"<", "s", "t", "d", "i", "n", ">">>
DiffName ==
    IF rpc = "off" THEN <<"f">>
    ELSE IF Len(opts.Files) = 0 THEN StdinName
    ELSE opts.Files[fileIdx]

(***************************************************************************)
(* Inputs: texts made of up to a bounded number of lines of a vocabulary,  *)
(* each with or without its final newline, and all short texts over a      *)
(* small alphabet.                                                         *)
(***************************************************************************)
\* Every sequence of at most n elements of set.
SeqsUpTo(set, n) == UNION {[1..k -> set] : k \in 0..n}

\* The newline-terminated texts of at most n lines of vocab.
TextsOf(vocab, n) ==
    {Concat([i \in 1..Len(ls) |-> ls[i] \o <<"\n">>]) : ls \in SeqsUpTo(vocab, n)}

\* A text without its last character (a text that lacks the final newline).
Chop(t) == IF t = <<>> THEN t ELSE Upto(t, Len(t) - 1)

MaxLines == 3
MaxChars == 4
MaxRuleLines == 3
MaxBlankRun == 4

\* Lines of every kind the pipeline treats differently.
FmtVocab ==
    { <<>>,
      <<"t", ":">>,
      <<"\t", "c">>,
      <<"#", "c">>,
      <<"#", "#">>,
      <<"i", "f", "d", "e", "f", " ", "A">>,
      <<"e", "n", "d", "i", "f">>,
      <<"A", ":", "=", "b">>,
      <<"x", " ", "\\">>,
      <<"d", "e", "f", "i", "n", "e", " ", "D">> }

FmtTexts == TextsOf(FmtVocab, MaxLines) \cup {<<"V", "A", "R", ":", "=", "v", "a", "l", "\n">>}

\* Lines for the parser: continuation runs, define blocks, rules and recipes.
ParseVocab ==
    { <<>>,
      <<"t", ":">>,
      <<"\t", "c">>,
      <<"#", "c">>,
      <<"x", " ", "\\">>,
      <<"\\">>,
      <<"d", "e", "f", "i", "n", "e", " ", "D">>,
      <<"d", "e", "f", "i", "n", "e", " ", "\\">>,
      <<" ", "e", "n", "d", "e", "f">>,
      <<"A", "=", "b">> }

ParseAlphabet == {"a", "\\", "\n", "\t", "#", ":"}

\* Lines whose text before the operator holds a space: the override form, and
\* a name of two other words.
OverrideVocab ==
    { <<"o", "v", "e", "r", "r", "i", "d", "e", " ", "X", " ", "=", " ", "1">>,
      <<"o", "v", "e", "r", "r", "i", "d", "e", " ", "Y", " ", ":", "=">>,
      <<"a", " ", "b", " ", "=", " ", "1">> }

ParseTexts ==
    LET vt == TextsOf(ParseVocab, MaxLines)
    IN  vt \cup {Chop(t) : t \in vt} \cup SeqsUpTo(ParseAlphabet, MaxChars)
           \cup TextsOf(OverrideVocab, MaxLines)

\* Lines for the assignment rules: names of several widths, padded or not,
\* several operators, and lines that separate groups.
AssignVocab ==
    { <<>>,
      <<"A", ":", "=", "b">>,
      <<"B", "B", "B", " ", " ", "=", " ", "c">>,
      <<" ", "C", "C", "?", "=">>,
      <<"#", "c">> }

\* Lines for the continuation rule: a rule, recipe lines and other lines that
\* end in a backslash, of several widths.
ContinuationVocab ==
    { <<"t", ":">>,
      <<"\t", "c", " ", "\\">>,
      <<"\t", "d", "d", "d", "d", "\\">>,
      <<"x", " ", " ", "\\">>,
      <<"y", "y", "y", "y", "y", "\\">> }

\* Runs of blank lines between and around two other lines.
BlankTexts ==
    {Concat([i \in 1..Len(ls) |-> ls[i] \o <<"\n">>]) :
        ls \in {Repeat(<< <<>> >>, i) \o a \o Repeat(<< <<>> >>, j) \o b \o Repeat(<< <<>> >>, k) :
                  i \in 0..1, j \in 0..MaxBlankRun, k \in {0, MaxBlankRun},
                  a \in {<<>>, << <<"a">> >>}, b \in {<<>>, << <<"b">> >>, << <<" ">> >>}}}

\* Lines for the banner rule: banners and a section header, at top level or
\* inside a conditional, one of them with a trailing blank.
BannerVocab ==
    { <<"i", "f", "d", "e", "f", " ", "A">>,
      <<"e", "n", "d", "i", "f">>,
      <<"#", "#", "#">>,
      <<"#", "#", "@", " ", "S">>,
      <<"#", " ", "=", "=", "=", " ">> }

\* Comments: with and without a space after "#", indented with a tab after
\* "#", with the prefix "##", a shebang and an empty comment.
MaxCommentLines == 2

CommentVocab ==
    { <<"#", "c">>,
      <<"#", " ", "c">>,
      <<" ", "#", "\t", "c">>,
      <<"#", "#", "d">>,
      <<"#", "!", "s">>,
      <<"#">> }

\* Conditional blocks: nested, with else, with a body, and with an else or an
\* endif too many.
MaxCondLines == 4

CondVocab ==
    { <<"i", "f", "d", "e", "f", " ", "A">>,
      <<"e", "l", "s", "e">>,
      <<"e", "n", "d", "i", "f">>,
      <<"x">> }

\* Two nested blocks with bodies and an else.
NestedText ==
    Concat([i \in 1..7 |->
              << <<"i", "f", "d", "e", "f", " ", "A">>, <<"i", "f", "e", "q", " ", "a">>,
                 <<"x">>, <<"e", "l", "s", "e">>, <<"x">>, <<"e", "n", "d", "i", "f">>,
                 <<"e", "n", "d", "i", "f">> >>[i] \o <<"\n">>])

RuleTexts ==
    TextsOf(AssignVocab, MaxRuleLines) \cup TextsOf(ContinuationVocab, MaxRuleLines)
      \cup TextsOf(BannerVocab, MaxRuleLines)
      \cup TextsOf(CommentVocab, MaxCommentLines)
      \cup TextsOf(CondVocab, MaxCondLines) \cup {NestedText}
      \cup BlankTexts
      \cup {<<"V", "A", "R", ":", "=", "v", "a", "l", "\n">>,
            <<"d", "e", "f", "i", "n", "e", " ", "D", "\n", "e", "n", "d", "e", "f", "\n">>}

\* Configurations: the defaults, and every option at each of its other values.
Configs ==
    { DefaultConfig,
      [DefaultConfig EXCEPT !.AssignmentSpacing = "no_space", !.BackslashColumn = 0,
                            !.MaxBlankLines = 0, !.ConditionalIndent = 1],
      [DefaultConfig EXCEPT !.AssignmentSpacing = "preserve", !.BackslashColumn = 5,
                            !.MaxBlankLines = 1, !.ConditionalIndent = 0],
      [DefaultConfig EXCEPT !.MaxBlankLines = -1, !.InsertFinalNewline = FALSE,
                            !.TrimTrailingWhitespace = FALSE, !.AlignAssignments = FALSE,
                            !.AlignBackslashContinuations = FALSE,
                            !.SpaceAfterComment = FALSE, !.IndentConditionals = FALSE] }

(***************************************************************************)
(* The formatting run: runner.formatInput, with the parser's loop and the  *)
(* engine's loop taken one iteration at a time, run a second time on its   *)
(* own output.                                                             *)
(***************************************************************************)
\* The runner is not in use.
NoRun ==
    /\ opts = [Files |-> <<>>, Check |-> FALSE, Diff |-> FALSE, Write |-> FALSE,
               Quiet |-> FALSE, Verbose |-> FALSE]
    /\ loadErr = FALSE /\ disk = <<>> /\ stdin = <<>> /\ rpc = "off" /\ fileIdx = 0
    /\ exitCode = 0 /\ calls = <<>> /\ stdout = <<>> /\ stderr = <<>>

NoDiff ==
    /\ dentry = "" /\ dpc = "off" /\ oldText = <<>> /\ newText = <<>> /\ dstep = 0 /\ dv = <<>>
    /\ trace = <<>> /\ edits = <<>> /\ hunks = <<>> /\ diffOut = <<>>

StartParse(text) ==
    /\ src = text
    /\ lines = splitLines(text)
    /\ lineNum = 0 /\ inRule = FALSE /\ inDefine = FALSE /\ nodes = <<>>
    /\ panicked = FALSE

\* The parser state as a record, and its fields written back.
ParserState == [inRule |-> inRule, inDefine |-> inDefine, nodes |-> nodes,
                lineNum |-> lineNum, panic |-> panicked]

SetParser(q) ==
    /\ inRule' = q.inRule /\ inDefine' = q.inDefine /\ nodes' = q.nodes
    /\ lineNum' = q.lineNum /\ panicked' = q.panic

\* state.parse: an iteration that joins and classifies a line.
ParseLine ==
    /\ pc = "parse" /\ ~panicked
    /\ lineNum < Len(lines) /\ ~inDefine
    /\ SetParser(parseIteration(ParserState, lines))
    /\ UNCHANGED <<pc, src, cfg, lines, ruleIdx, out, pass, out1, input, applied>>
    /\ UNCHANGED <<diffVars, runVars>>

\* state.parse: an iteration inside a define block.
ParseDefine ==
    /\ pc = "parse" /\ ~panicked
    /\ lineNum < Len(lines) /\ inDefine
    /\ SetParser(parseIteration(ParserState, lines))
    /\ UNCHANGED <<pc, src, cfg, lines, ruleIdx, out, pass, out1, input, applied>>
    /\ UNCHANGED <<diffVars, runVars>>

\* state.parse: the loop ends and the nodes are returned to formatInput.
ParseReturn ==
    /\ pc = "parse" /\ ~panicked
    /\ lineNum >= Len(lines)
    /\ pc' = "run"
    /\ ruleIdx' = 1
    /\ UNCHANGED <<src, cfg, lines, lineNum, inRule, inDefine, nodes, panicked,
                   out, pass, out1, input, applied>>
    /\ UNCHANGED <<diffVars, runVars>>

\* formatter.Run: one iteration of the loop over the registered rules.
RunRule ==
    /\ pc = "run" /\ ~panicked
    /\ ruleIdx <= Len(FormatRules)
    /\ panicked' = FormatPanics(FormatRules[ruleIdx], nodes, cfg)
    /\ nodes' = IF panicked' THEN nodes ELSE Format(FormatRules[ruleIdx], nodes, cfg)
    /\ applied' = FormatRules[ruleIdx]
    /\ ruleIdx' = ruleIdx + 1
    /\ UNCHANGED <<pc, src, cfg, lines, lineNum, inRule, inDefine, out, pass, out1, input>>
    /\ UNCHANGED <<diffVars, runVars>>

\* formatInput: formatter.Write of the result of the last rule.
WriteOut ==
    /\ pc = "run" /\ ~panicked
    /\ ruleIdx > Len(FormatRules)
    /\ out' = Write(nodes)
    /\ pc' = "written"
    /\ UNCHANGED <<src, cfg, lines, lineNum, inRule, inDefine, nodes, panicked,
                   ruleIdx, pass, out1, input, applied>>
    /\ UNCHANGED <<diffVars, runVars>>

\* The formatter is run again on its own output, with the same configuration.
Reformat ==
    /\ pc = "written" /\ pass = 1
    /\ pass' = 2
    /\ out1' = out
    /\ src' = out
    /\ lines' = splitLines(out)
    /\ lineNum' = 0 /\ inRule' = FALSE /\ inDefine' = FALSE /\ nodes' = <<>>
    /\ pc' = "parse"
    /\ UNCHANGED <<cfg, panicked, ruleIdx, out, input, applied>>
    /\ UNCHANGED <<diffVars, runVars>>

FmtInitWith(texts, configs) ==
    /\ \E t \in texts : StartParse(t)
    /\ cfg \in configs
    /\ pc = "parse" /\ ruleIdx = 0 /\ out = <<>> /\ pass = 1 /\ out1 = <<>>
    /\ input = <<>> /\ applied = ""
    /\ NoDiff
    /\ NoRun

\* The configurations of the full runs: the defaults and one with other values.
FmtConfigs ==
    { DefaultConfig,
      [DefaultConfig EXCEPT !.AssignmentSpacing = "no_space", !.BackslashColumn = 0,
                            !.MaxBlankLines = 0, !.ConditionalIndent = 1] }

Init == FmtInitWith(FmtTexts, FmtConfigs)

Next == ParseLine \/ ParseDefine \/ ParseReturn \/ RunRule \/ WriteOut \/ Reformat

Spec == Init /\ [][Next]_vars

(***************************************************************************)
(* The parser alone, on the parser's inputs.                               *)
(***************************************************************************)
InitParse == FmtInitWith(ParseTexts, {DefaultConfig})

NextParse == ParseLine \/ ParseDefine \/ ParseReturn

SpecParse == InitParse /\ [][NextParse]_vars

(***************************************************************************)
(* One rule on the nodes Parse returned, next to the run of every rule.    *)
(***************************************************************************)
InitRule == FmtInitWith(RuleTexts, Configs)

\* rule.Format(nodes, cfg) for the rule called name, and Write of its result.
ApplyRule(name) ==
    /\ pc = "run" /\ ruleIdx = 1 /\ ~panicked
    /\ applied' = name
    /\ input' = nodes
    /\ panicked' = FormatPanics(name, nodes, cfg)
    /\ nodes' = IF panicked' THEN nodes ELSE Format(name, nodes, cfg)
    /\ out' = IF panicked' THEN <<>> ELSE Write(nodes')
    /\ pc' = "formatted"
    /\ UNCHANGED <<src, cfg, lines, lineNum, inRule, inDefine, ruleIdx, pass, out1>>
    /\ UNCHANGED <<diffVars, runVars>>

FormatTrailingWhitespace == ApplyRule("trim_trailing_whitespace")
FormatFinalNewline == ApplyRule("insert_final_newline")
FormatBlankLines == ApplyRule("max_blank_lines")
FormatAssignmentSpacing == ApplyRule("assignment_spacing")
FormatAlignAssignments == ApplyRule("align_assignments")
FormatBackslashAlign == ApplyRule("align_backslash_continuations")
FormatCommentSpacing == ApplyRule("space_after_comment")
FormatConditionalIndent == ApplyRule("indent_conditionals")
FormatBannerPreserve == ApplyRule("preserve_banner_comments")

NextRule ==
    \/ ParseLine \/ ParseDefine \/ ParseReturn
    \/ FormatTrailingWhitespace \/ FormatFinalNewline \/ FormatBlankLines
    \/ FormatAssignmentSpacing \/ FormatAlignAssignments \/ FormatBackslashAlign
    \/ FormatCommentSpacing \/ FormatConditionalIndent \/ FormatBannerPreserve
    \/ RunRule \/ WriteOut

SpecRule == InitRule /\ [][NextRule]_vars

(***************************************************************************)
(* The rules called on node sequences built by hand, as the tests of the   *)
(* rules and of the writer build them: nodes with a Raw, and nodes         *)
(* described by their Fields alone.                                        *)
(***************************************************************************)
MaxBuilt == 2

BuiltNodes ==
    { [Node("Comment", <<>>) EXCEPT !.Fields.Prefix = <<"#">>, !.Fields.Text = <<"c">>],
      [Node("Comment", <<"#", "c">>) EXCEPT !.Fields.Prefix = <<"#">>, !.Fields.Text = <<"c">>],
      [Node("Comment", <<>>) EXCEPT !.Fields.Prefix = <<"#", "#">>, !.Fields.Text = <<"d">>],
      [Node("Assignment", <<>>) EXCEPT !.Fields.VarName = <<"A">>, !.Fields.AssignOp = <<"=">>,
                                       !.Fields.VarValue = <<"b">>],
      [Node("Assignment", <<>>) EXCEPT !.Fields.VarName = <<"A">>, !.Fields.AssignOp = <<"=">>],
      [Node("Conditional", <<>>) EXCEPT !.Fields.Directive = <<"i", "f", "d", "e", "f">>,
                                        !.Fields.Condition = <<"A">>],
      [Node("Conditional", <<>>) EXCEPT !.Fields.Directive = <<"e", "n", "d", "i", "f">>],
      [Node("Rule", <<>>) EXCEPT !.Fields.Targets = << <<"t">> >>,
                                 !.Children = << [Node("Recipe", <<>>) EXCEPT
                                                      !.Fields.Text = <<"c">>,
                                                      !.ptr = <<0>>] >>],
      Node("BlankLine", <<>>),
      Node("Raw", <<"x", " ">>) }

\* The sequences of the built nodes, every node at its own address.
BuiltSeqs ==
    {[i \in 1..Len(s) |-> [s[i] EXCEPT !.Line = i, !.ptr = <<i>>]] :
        s \in SeqsUpTo(BuiltNodes, MaxBuilt)}

InitNodes ==
    /\ src = <<>> /\ lines = <<>>
    /\ lineNum = 0 /\ inRule = FALSE /\ inDefine = FALSE
    /\ nodes \in BuiltSeqs
    /\ panicked = FALSE
    /\ cfg \in Configs
    /\ pc = "run" /\ ruleIdx = 1 /\ out = <<>> /\ pass = 1 /\ out1 = <<>>
    /\ input = <<>> /\ applied = ""
    /\ NoDiff
    /\ NoRun

NextNodes ==
    \/ FormatTrailingWhitespace \/ FormatFinalNewline \/ FormatBlankLines
    \/ FormatAssignmentSpacing \/ FormatAlignAssignments \/ FormatBackslashAlign
    \/ FormatCommentSpacing \/ FormatConditionalIndent \/ FormatBannerPreserve

SpecNodes == InitNodes /\ [][NextNodes]_vars

(***************************************************************************)
(* The diff engine: Unified, and myers called on its own.                  *)
(***************************************************************************)
MaxDiffChars == 2
MaxDiffLines == 4

DiffAlphabet == {"a", "b", "\n"}
DiffLineVocab == {<<"a">>, <<"b">>}

\* Texts of a few characters (among them texts without a final newline and the
\* empty text) and texts of whole lines.
DiffTexts == SeqsUpTo(DiffAlphabet, MaxDiffChars) \cup TextsOf(DiffLineVocab, MaxDiffLines)

\* Two changes in a longer file: pad unchanged lines before the first change and
\* after the second, gap unchanged lines between them.  A change replaces a
\* line, deletes one or inserts one.
MaxGap == 7
MaxPad == 4

ChangeKinds == {"replace", "delete", "insert"}

GapText(pad1, c1, gap, c2, pad2, side) ==
    LET same == << <<"c", "\n">> >>
        changed(c) == IF side = "old"
                      THEN (IF c \in {"replace", "delete"} THEN << <<"a", "\n">> >> ELSE <<>>)
                      ELSE (IF c \in {"replace", "insert"} THEN << <<"b", "\n">> >> ELSE <<>>)
    IN  Concat(Repeat(same, pad1) \o changed(c1) \o Repeat(same, gap)
                 \o changed(c2) \o Repeat(same, pad2))

GapPairs ==
    {<<GapText(pad1, c1, gap, c2, pad2, "old"), GapText(pad1, c1, gap, c2, pad2, "new")>> :
        pad1 \in {0, MaxPad}, c1 \in ChangeKinds, gap \in 0..MaxGap,
        c2 \in ChangeKinds, pad2 \in {0, MaxPad}}

\* The pairs of texts Unified and myers are called with.
DiffPairs == (DiffTexts \X DiffTexts) \cup GapPairs

oldLines == diffSplitLines(oldText)
newLines == diffSplitLines(newText)
diffTotal == Len(oldLines) + Len(newLines)

\* make([]int, 2*total+1), indexed from 0.
newV(total) == [i \in 0..(2 * total) |-> 0]

NoFmt ==
    /\ StartParse(<<>>)
    /\ cfg = DefaultConfig
    /\ pc = "off" /\ ruleIdx = 0 /\ out = <<>> /\ pass = 1 /\ out1 = <<>>
    /\ input = <<>> /\ applied = ""

InitDiff ==
    /\ NoFmt
    /\ NoRun
    /\ \E p \in DiffPairs : oldText = p[1] /\ newText = p[2]
    /\ dentry \in {"Unified", "myers"}
    /\ dpc = "call"
    /\ dstep = 0 /\ dv = <<>> /\ trace = <<>> /\ edits = <<>> /\ hunks = <<>>
    /\ diffOut = <<>>

\* Unified up to the call of myers: the early return for identical texts.
UnifiedCall ==
    /\ dpc = "call" /\ dentry = "Unified"
    /\ IF oldText = newText
       THEN dpc' = "done" /\ diffOut' = <<>>
       ELSE dpc' = "myers" /\ UNCHANGED diffOut
    /\ UNCHANGED <<dentry, oldText, newText, dstep, dv, trace, edits, hunks>>
    /\ UNCHANGED <<fmtVars, runVars>>

\* myers before its loop: the early return for two empty sequences, and v.
MyersEnter ==
    /\ dpc \in {"call", "myers"} /\ (dpc = "call" => dentry = "myers")
    /\ IF diffTotal = 0
       THEN dpc' = "returned" /\ edits' = <<>> /\ UNCHANGED <<dv, dstep, trace>>
       ELSE /\ dpc' = "loop" /\ dv' = newV(diffTotal) /\ dstep' = 0 /\ trace' = <<>>
            /\ UNCHANGED edits
    /\ UNCHANGED <<dentry, oldText, newText, hunks, diffOut>>
    /\ UNCHANGED <<fmtVars, runVars>>

\* One iteration of myers' loop over d, or the statement after the loop.
MyersStep ==
    /\ dpc = "loop"
    /\ IF dstep > diffTotal
       THEN /\ dpc' = "fallback" /\ edits' = <<>>
            /\ UNCHANGED <<dv, dstep, trace>>
       ELSE LET tr == Append(trace, dv)
                r == kLoop(dv, dstep, -dstep, oldLines, newLines)
            IN  /\ trace' = tr
                /\ dv' = r.v
                /\ IF r.found
                   THEN /\ edits' = backtrack(tr, oldLines, newLines, dstep, diffTotal)
                        /\ dpc' = "returned"
                        /\ UNCHANGED dstep
                   ELSE /\ dstep' = dstep + 1
                        /\ UNCHANGED <<dpc, edits>>
    /\ UNCHANGED <<dentry, oldText, newText, hunks, diffOut>>
    /\ UNCHANGED <<fmtVars, runVars>>

\* Unified after myers: buildHunks.
BuildHunks ==
    /\ dpc \in {"returned", "fallback"} /\ dentry = "Unified"
    /\ hunks' = buildHunks(edits)
    /\ dpc' = "built"
    /\ UNCHANGED <<dentry, oldText, newText, dstep, dv, trace, edits, diffOut>>
    /\ UNCHANGED <<fmtVars, runVars>>

\* Unified's last part: "" without hunks, else the headers and the hunks.
UnifiedWrite ==
    /\ dpc = "built"
    /\ diffOut' = IF Len(hunks) = 0 THEN <<>>
                  ELSE fileHeader(DiffName)
                         \o Concat([i \in 1..Len(hunks) |-> writeTo(hunks[i], oldLines, newLines)])
    /\ dpc' = "done"
    /\ UNCHANGED <<dentry, oldText, newText, dstep, dv, trace, edits, hunks>>
    /\ UNCHANGED <<fmtVars, runVars>>

NextDiff == UnifiedCall \/ MyersEnter \/ MyersStep \/ BuildHunks \/ UnifiedWrite

SpecDiff == InitDiff /\ [][NextDiff]_vars

(***************************************************************************)
(* The runner (internal/runner): Run, runStdin and runFile on a disk of    *)
(* files that may be missing or read-only.  formatInput and diff.Unified   *)
(* run as the steps of the parser, the rules, the writer and the diff.     *)
(***************************************************************************)
ExitOK == 0
ExitFormatDiff == 1
ExitError == 2

\* The entries of Stderr: an error message, or the path of a file.
ErrLine(path) == [kind |-> "error", path |-> path]
PathLine(path) == [kind |-> "path", path |-> path]

\* Inputs of the runner: up to MaxFiles arguments out of two paths, files that
\* are missing, read-only or writable, a text the rules leave as it is and one
\* they change.
MaxFiles == 2

PathF == <<"f">>
PathG == <<"g">>
Formatted == <<"d", "e", "f", "i", "n", "e", " ", "D", "\n", "e", "n", "d", "e", "f", "\n">>
Unformatted == <<"A", "=", "b", "\n">>

File(exists, content, writable) ==
    [exists |-> exists, content |-> content, writable |-> writable]
Missing == File(FALSE, <<>>, FALSE)

Disks ==
    {[p \in {PathF, PathG} |-> IF p = PathF THEN f ELSE g] :
        f \in {Missing} \cup {File(TRUE, t, w) : t \in {Formatted, Unformatted}, w \in BOOLEAN},
        g \in {Missing, File(TRUE, Unformatted, TRUE)}}

Stdins == {[readable |-> FALSE, content |-> <<>>]}
            \cup {[readable |-> TRUE, content |-> t] : t \in {Formatted, Unformatted}}

RunOptions ==
    {[Files |-> fs, Check |-> c, Diff |-> d, Write |-> w, Quiet |-> q, Verbose |-> q] :
        fs \in SeqsUpTo({PathF, PathG}, MaxFiles), c \in BOOLEAN, d \in BOOLEAN,
        w \in BOOLEAN, q \in BOOLEAN}

InitRun ==
    /\ NoFmt
    /\ NoDiff
    /\ opts \in RunOptions
    /\ disk \in (IF Len(opts.Files) = 0 THEN {[p \in {PathF, PathG} |-> Missing]} ELSE Disks)
    /\ loadErr = FALSE
    /\ stdin = [readable |-> FALSE, content |-> <<>>]
    /\ rpc = "load" /\ fileIdx = 1 /\ exitCode = ExitOK
    /\ calls = <<>> /\ stdout = <<>> /\ stderr = <<>>

\* Run up to the loop: config.Load, which may fail, and its error return.
LoadConfig ==
    /\ rpc = "load"
    /\ \E err \in BOOLEAN :
         /\ loadErr' = err
         /\ IF err
            THEN /\ stderr' = Append(stderr, ErrLine(<<>>))
                 /\ exitCode' = ExitError
                 /\ rpc' = "exited"
            ELSE /\ rpc' = IF Len(opts.Files) = 0 THEN "stdin" ELSE "files"
                 /\ UNCHANGED <<stderr, exitCode>>
    /\ UNCHANGED <<opts, disk, stdin, fileIdx, calls, stdout>>
    /\ UNCHANGED <<fmtVars, diffVars>>

\* The call formatInput(input, cfg, formatRules): parser.Parse starts.
StartFormat(text) ==
    /\ src' = text
    /\ lines' = splitLines(text)
    /\ lineNum' = 0 /\ inRule' = FALSE /\ inDefine' = FALSE /\ nodes' = <<>>
    /\ pc' = "parse" /\ ruleIdx' = 0 /\ out' = <<>>
    /\ UNCHANGED <<cfg, panicked, pass, out1, input, applied>>

\* The call diff.Unified(name, input, output).
StartUnified(old, new) ==
    /\ dentry' = "Unified" /\ dpc' = "call"
    /\ oldText' = old /\ newText' = new
    /\ dstep' = 0 /\ dv' = <<>> /\ trace' = <<>> /\ edits' = <<>> /\ hunks' = <<>>
    /\ diffOut' = <<>>

\* A loop that keeps the code of the last file.
FileReturnsLast(code) ==
    /\ calls' = Append(calls, [path |-> opts.Files[fileIdx], code |-> code])
    /\ exitCode' = code
    /\ fileIdx' = fileIdx + 1
    /\ rpc' = "files"

\* runFile returns code to Run's loop, which keeps the maximum.
FileReturns(code) ==
    /\ calls' = Append(calls, [path |-> opts.Files[fileIdx], code |-> code])
    /\ exitCode' = IF code > exitCode THEN code ELSE exitCode
    /\ fileIdx' = fileIdx + 1
    /\ rpc' = "files"

\* runStdin returns code, and Run returns it.
StdinReturns(code) ==
    /\ exitCode' = code
    /\ rpc' = "exited"
    /\ UNCHANGED <<calls, fileIdx>>

\* runStdin: io.ReadAll(os.Stdin) and the call of formatInput.
RunStdinRead ==
    /\ rpc = "stdin"
    /\ \E in \in Stdins :
         /\ stdin' = in
         /\ IF ~in.readable
            THEN /\ stderr' = Append(stderr, ErrLine(StdinName))
                 /\ StdinReturns(ExitError)
                 /\ UNCHANGED fmtVars
            ELSE /\ StartFormat(in.content)
                 /\ rpc' = "format"
                 /\ UNCHANGED <<stderr, exitCode, calls, fileIdx>>
    /\ UNCHANGED <<opts, loadErr, disk, stdout>>
    /\ UNCHANGED diffVars

\* runStdin after formatInput: the check, the call of Unified, or the output.
RunStdinFormatted ==
    /\ rpc = "format" /\ pc = "written" /\ Len(opts.Files) = 0
    /\ pc' = "off"
    /\ IF opts.Check
       THEN /\ StdinReturns(IF src # out THEN ExitFormatDiff ELSE ExitOK)
            /\ UNCHANGED <<stdout, diffVars>>
       ELSE IF opts.Diff
       THEN /\ StartUnified(src, out)
            /\ rpc' = "diff"
            /\ UNCHANGED <<stdout, exitCode, calls, fileIdx>>
       ELSE /\ stdout' = stdout \o out
            /\ StdinReturns(ExitOK)
            /\ UNCHANGED diffVars
    /\ UNCHANGED <<opts, loadErr, disk, stdin, stderr>>
    /\ UNCHANGED <<src, cfg, lines, lineNum, inRule, inDefine, nodes, panicked,
                   ruleIdx, out, pass, out1, input, applied>>

\* runFile: os.ReadFile(path) and the call of formatInput.
RunFileRead ==
    /\ rpc = "files" /\ fileIdx <= Len(opts.Files)
    /\ LET path == opts.Files[fileIdx]
       IN  IF ~disk[path].exists
           THEN /\ stderr' = Append(stderr, ErrLine(path))
                /\ FileReturns(ExitError)
                /\ UNCHANGED fmtVars
           ELSE /\ StartFormat(disk[path].content)
                /\ rpc' = "format"
                /\ UNCHANGED <<stderr, exitCode, calls, fileIdx>>
    /\ UNCHANGED <<opts, loadErr, disk, stdin, stdout>>
    /\ UNCHANGED diffVars

\* runFile's write mode: nothing for an unchanged text, else os.WriteFile.
WriteBack(path, verbose) ==
    IF src = out
    THEN /\ stderr' = stderr \o verbose
         /\ FileReturns(ExitOK)
         /\ UNCHANGED <<disk, stdout>>
    ELSE IF ~disk[path].writable
    THEN /\ stderr' = stderr \o verbose \o <<ErrLine(path)>>
         /\ FileReturns(ExitError)
         /\ UNCHANGED <<disk, stdout>>
    ELSE /\ disk' = [disk EXCEPT ![path].content = out]
         /\ stderr' = stderr \o verbose
         /\ FileReturns(ExitOK)
         /\ UNCHANGED stdout

\* runFile after formatInput: the verbose line, the check, the call of Unified,
\* or the write mode.
RunFileFormatted ==
    /\ rpc = "format" /\ pc = "written" /\ Len(opts.Files) > 0
    /\ pc' = "off"
    /\ LET path == opts.Files[fileIdx]
           verbose == IF opts.Verbose THEN <<PathLine(path)>> ELSE <<>>
       IN  IF opts.Check
           THEN /\ stderr' = stderr \o verbose
                               \o (IF src # out /\ ~opts.Quiet THEN <<PathLine(path)>> ELSE <<>>)
                /\ FileReturns(IF src # out THEN ExitFormatDiff ELSE ExitOK)
                /\ UNCHANGED <<disk, stdout, diffVars>>
           ELSE IF opts.Diff
           THEN /\ stderr' = stderr \o verbose
                /\ StartUnified(src, out)
                /\ rpc' = "diff"
                /\ UNCHANGED <<disk, stdout, exitCode, calls, fileIdx>>
           ELSE /\ WriteBack(path, verbose)
                /\ UNCHANGED diffVars
    /\ UNCHANGED <<opts, loadErr, stdin>>
    /\ UNCHANGED <<src, cfg, lines, lineNum, inRule, inDefine, nodes, panicked,
                   ruleIdx, out, pass, out1, input, applied>>

\* runStdin and runFile after Unified: the diff is printed when it is not empty.
RunDiffed ==
    /\ rpc = "diff" /\ dpc = "done"
    /\ dpc' = "off"
    /\ LET code == IF diffOut # <<>> THEN ExitFormatDiff ELSE ExitOK
       IN  IF Len(opts.Files) = 0 THEN StdinReturns(code) ELSE FileReturns(code)
    /\ stdout' = stdout \o diffOut
    /\ UNCHANGED <<opts, loadErr, disk, stdin, stderr>>
    /\ UNCHANGED <<dentry, oldText, newText, dstep, dv, trace, edits, hunks, diffOut>>
    /\ UNCHANGED fmtVars

\* Run after its loop: return exitCode.
RunReturn ==
    /\ rpc = "files" /\ fileIdx > Len(opts.Files)
    /\ rpc' = "exited"
    /\ UNCHANGED <<opts, loadErr, disk, stdin, fileIdx, exitCode, calls, stdout, stderr>>
    /\ UNCHANGED <<fmtVars, diffVars>>

NextRun ==
    \/ LoadConfig \/ RunStdinRead \/ RunFileRead
    \/ ParseLine \/ ParseDefine \/ ParseReturn \/ RunRule \/ WriteOut
    \/ RunStdinFormatted \/ RunFileFormatted
    \/ UnifiedCall \/ MyersEnter \/ MyersStep \/ BuildHunks \/ UnifiedWrite
    \/ RunDiffed \/ RunReturn

SpecRun == InitRun /\ [][NextRun]_vars

(***************************************************************************)
(* Properties of the formatting run and of the parser.                     *)
(***************************************************************************)
EndsWithNewline(t) == t = <<>> \/ t[Len(t)] = "\n"

\* C1: formatting is idempotent: the run on the output of a run returns that output.
Idempotent == (pc = "written" /\ pass = 2) => out = out1

\* C2: round trip without rules: for a text that is empty or ends with a newline,
\* writing the nodes Parse returned gives the text back.
RoundTrip ==
    (pc = "run" /\ ruleIdx = 1 /\ pass = 1 /\ EndsWithNewline(src)) => Write(nodes) = src

\* C3: Parse is total: no index is out of range, the cursor stays within one past
\* the number of lines, and every iteration of the line loop advances it.
ParseTotal ==
    /\ [](~panicked)
    /\ [](lineNum <= Len(lines) + 1)
    /\ [][(pc = "parse" /\ pc' = "parse" /\ pass' = pass) => lineNum' > lineNum]_vars

\* C3 witness: an input whose last line ends in a backslash inside a define block
\* or a continuation run, parsed to the end.
ParseTotalWitness ==
    /\ pc = "run" /\ Len(lines) > 1
    /\ hasContinuation(lines[Len(lines)])
    /\ hasContinuation(lines[Len(lines) - 1])
    /\ Len(nodes) = 1

(***************************************************************************)
(* Properties of the single rules.                                         *)
(***************************************************************************)
RuleDone(name) == pc = "formatted" /\ applied = name /\ ~panicked
AllDone == pc = "written" /\ pass = 1

\* name, one space, operator and, for a value that is not empty, one space and the value.
SpacedLine(n) ==
    n.Fields.VarName \o <<" ">> \o n.Fields.AssignOp
      \o (IF n.Fields.VarValue = <<>> THEN <<>> ELSE <<" ">> \o n.Fields.VarValue)

\* name, operator and value without spaces.
TightLine(n) == n.Fields.VarName \o n.Fields.AssignOp \o n.Fields.VarValue

\* C7: AssignmentSpacing writes every assignment node as "name op value" in
\* space mode and as "nameopvalue" in no_space mode, whatever the spacing of the
\* source line, returns the nodes unchanged in preserve mode and passes the
\* other nodes through; every rule with the defaults turns "VAR:=val\n" into
\* "VAR := val\n".
AssignmentSpacingNormalises ==
    /\ RuleDone("assignment_spacing") =>
         /\ Len(nodes) = Len(input)
         /\ \A i \in 1..Len(input) :
              IF cfg.AssignmentSpacing = "preserve" \/ input[i].Type # "Assignment"
              THEN nodes[i] = input[i]
              ELSE /\ nodes[i].Fields = input[i].Fields
                   /\ TrimSpace(input[i].Fields.VarName) = input[i].Fields.VarName
                   /\ TrimSpace(input[i].Fields.VarValue) = input[i].Fields.VarValue
                   /\ cfg.AssignmentSpacing = "space" =>
                        writeNode(nodes[i]) = SpacedLine(input[i])
                   /\ cfg.AssignmentSpacing = "no_space" =>
                        writeNode(nodes[i]) = TightLine(input[i])
    /\ (AllDone /\ cfg = DefaultConfig /\ src = <<"V", "A", "R", ":", "=", "v", "a", "l", "\n">>) =>
         out = <<"V", "A", "R", " ", ":", "=", " ", "v", "a", "l", "\n">>

\* A padded source line is written with single spaces in space mode.
AssignmentSpacingNormalisesWitness ==
    /\ RuleDone("assignment_spacing")
    /\ cfg.AssignmentSpacing = "space"
    /\ \E i \in 1..Len(input) :
         /\ input[i].Raw = <<"B", "B", "B", " ", " ", "=", " ", "c">>
         /\ writeNode(nodes[i]) = <<"B", "B", "B", " ", "=", " ", "c">>

\* The number of consecutive blank-line nodes that end at node i.
RECURSIVE blankRunPos(_, _)
blankRunPos(ns, i) ==
    IF i = 0 \/ ns[i].Type # "BlankLine" THEN 0 ELSE 1 + blankRunPos(ns, i - 1)

\* The nodes of ns whose index is in keep, in their order.
RECURSIVE Pick(_, _, _)
Pick(ns, keep, i) ==
    IF i > Len(ns) THEN <<>>
    ELSE (IF i \in keep THEN <<ns[i]>> ELSE <<>>) \o Pick(ns, keep, i + 1)

\* C8: BlankLines with m >= 0 keeps the non-blank nodes and the first min(k, m)
\* nodes of every run of k blank-line nodes, in order, and with m < 0 returns
\* its input; every rule with the defaults turns "a\n\n\n\nb\n" into "a\n\n\nb\n".
BlankLinesCollapse ==
    /\ RuleDone("max_blank_lines") =>
         nodes = IF cfg.MaxBlankLines < 0 THEN input
                 ELSE Pick(input,
                           {i \in 1..Len(input) :
                              input[i].Type # "BlankLine"
                                \/ blankRunPos(input, i) <= cfg.MaxBlankLines},
                           1)
    /\ (AllDone /\ cfg = DefaultConfig
          /\ src = <<"a", "\n", "\n", "\n", "\n", "b", "\n">>) =>
         out = <<"a", "\n", "\n", "\n", "b", "\n">>

\* A run of three blank lines with m = 2.
BlankLinesCollapseWitness ==
    /\ RuleDone("max_blank_lines")
    /\ cfg.MaxBlankLines = 2
    /\ src = <<"a", "\n", "\n", "\n", "\n", "b", "\n">>
    /\ Len(input) = 5 /\ Len(nodes) = 4
    /\ out = <<"a", "\n", "\n", "\n", "b", "\n">>

\* The indices of the maximal run of assignment nodes around node i.
runOf(ns, i) ==
    {j \in 1..Len(ns) :
       \A k \in (Min2(i, j))..(Max2(i, j)) : ns[k].Type = "Assignment"}

\* The widest name of the run, trailing padding not counted.
widestName(ns, run) ==
    CHOOSE w \in {Len(TrimRight(ns[j].Fields.VarName, {" "})) : j \in run} :
       \A j \in run : Len(TrimRight(ns[j].Fields.VarName, {" "})) <= w

\* Node i of the result is written with its operator at column col(width of
\* its run) when its run has two nodes or more, and is the input node otherwise.
OperatorsAt(col(_)) ==
    /\ Len(nodes) = Len(input)
    /\ \A i \in 1..Len(input) :
         IF input[i].Type = "Assignment" /\ Cardinality(runOf(input, i)) >= 2
         THEN /\ Index(writeNode(nodes[i]), input[i].Fields.AssignOp)
                   = col(widestName(input, runOf(input, i)))
              /\ HasPrefix(writeNode(nodes[i]), input[i].Fields.VarName)
         ELSE nodes[i] = input[i]

AlignDone == RuleDone("align_assignments") /\ cfg.AlignAssignments

\* C9 as stated: in every run of two or more assignment nodes the operator of
\* every written line starts at column 1 + the widest name, in every spacing mode.
AlignedAtOnePlusMax == AlignDone => OperatorsAt(LAMBDA w : 1 + w)

\* C9: in every run of two or more assignment nodes the operator of every
\* written line starts at column 1 + the widest name in the modes space and
\* preserve, and at the column of the widest name in the mode no_space; a run of
\* one node and every other node is returned as it is.
AlignedOperators ==
    AlignDone =>
      IF cfg.AssignmentSpacing = "no_space"
      THEN OperatorsAt(LAMBDA w : w)
      ELSE OperatorsAt(LAMBDA w : 1 + w)

\* A group of two names of different widths in no_space mode.
AlignedOperatorsWitness ==
    /\ AlignDone
    /\ cfg.AssignmentSpacing = "no_space"
    /\ Len(input) >= 2
    /\ input[1].Raw = <<"A", ":", "=", "b">>
    /\ input[2].Raw = <<"B", "B", "B", " ", " ", "=", " ", "c">>
    /\ writeNode(nodes[1]) = <<"A", " ", " ", ":", "=", "b">>
    /\ writeNode(nodes[2]) = <<"B", "B", "B", "=", "c">>

\* The top-level nodes and the children of the rules.
WithChildren(ns) ==
    {ns[i] : i \in 1..Len(ns)}
      \cup UNION {{ns[i].Children[j] : j \in 1..Len(ns[i].Children)} : i \in 1..Len(ns)}

\* The lines of raw that end in a backslash, without trailing blanks.
continuationLines(raw) ==
    LET ls == Split(raw, "\n")
    IN  {TrimRight(ls[i], SpaceTab) : i \in {j \in 1..Len(ls) :
                                              HasSuffix(TrimRight(ls[j], SpaceTab), <<"\\">>)}}

\* C10 as stated: after BackslashAlign, in every node, top-level or recipe of
\* a rule, the trailing backslashes are on one column and each has a space
\* before it.
BackslashesAligned ==
    (RuleDone("align_backslash_continuations") /\ cfg.AlignBackslashContinuations) =>
       \A n \in WithChildren(nodes) :
          /\ \A l1, l2 \in continuationLines(n.Raw) : Len(l1) = Len(l2)
          /\ \A l \in continuationLines(n.Raw) : Len(l) >= 2 /\ l[Len(l) - 1] = " "

(***************************************************************************)
(* Properties of the diff engine.                                          *)
(***************************************************************************)
UnifiedDone == dentry = "Unified" /\ dpc = "done"

\* C4: Unified returns "" exactly for identical texts, and for different texts
\* a diff that starts with the two header lines "--- a/<name>", "+++ b/<name>".
UnifiedEmptyIffEqual ==
    UnifiedDone =>
      /\ (diffOut = <<>>) <=> (oldText = newText)
      /\ oldText # newText =>
           HasPrefix(diffOut, <<"-", "-", "-", " ", "a", "/">> \o DiffName \o <<"\n">>
                                \o <<"+", "+", "+", " ", "b", "/">> \o DiffName \o <<"\n">>)

\* Two texts that differ only in the final newline give a diff.
UnifiedEmptyIffEqualWitness ==
    /\ UnifiedDone
    /\ oldText = <<"a">> /\ newText = <<"a", "\n">>
    /\ diffOut # <<>>

\* The length of a longest common subsequence, by its recurrence.
RECURSIVE LCS(_, _)
LCS(a, b) ==
    IF a = <<>> \/ b = <<>> THEN 0
    ELSE IF a[1] = b[1] THEN 1 + LCS(Tail(a), Tail(b))
    ELSE Max2(LCS(Tail(a), b), LCS(a, Tail(b)))

\* The subsequence of the entries of es whose kind is in kinds.
OfKinds(es, kinds) == SelectSeq(es, LAMBDA e : e.kind \in kinds)

\* C5: the script myers returns lists the old indices 0..len(a)-1 in its
\* equal/delete entries and the new indices 0..len(b)-1 in its equal/insert
\* entries, in increasing order; an equal entry pairs identical lines; the
\* inserts and deletes number len(a) + len(b) - 2*LCS(a, b); and the statement
\* after the loop over d is never reached.
MyersShortest ==
    /\ dpc # "fallback"
    /\ dpc = "returned" =>
         LET olds == OfKinds(edits, {"equal", "delete"})
             news == OfKinds(edits, {"equal", "insert"})
         IN  /\ Len(olds) = Len(oldLines)
             /\ \A i \in 1..Len(olds) : olds[i].oldIdx = i - 1
             /\ Len(news) = Len(newLines)
             /\ \A i \in 1..Len(news) : news[i].newIdx = i - 1
             /\ \A i \in 1..Len(edits) :
                  edits[i].kind = "equal" =>
                    oldLines[edits[i].oldIdx + 1] = newLines[edits[i].newIdx + 1]
             /\ Len(OfKinds(edits, {"insert", "delete"}))
                  = Len(oldLines) + Len(newLines) - 2 * LCS(oldLines, newLines)

\* A script with an equal, a delete and an insert entry, found after two steps.
MyersShortestWitness ==
    /\ dpc = "returned" /\ dstep >= 2
    /\ \A k \in {"equal", "insert", "delete"} : OfKinds(edits, {k}) # <<>>
    /\ LCS(oldLines, newLines) >= 2

\* The lines of the hunks: the lines of the diff after the two header lines.
hunkLines == LET ls == diffSplitLines(diffOut) IN SubSeq(ls, 3, Len(ls))

\* The diff has a line made of the sign and a line of ls.
HasLineFrom(sign, ls) ==
    \E i \in 1..Len(hunkLines) : \E j \in 1..Len(ls) :
       hunkLines[i] = <<sign>> \o ensureNewline(ls[j])

\* C6 as stated: for different texts the diff is not empty and has a '-' line
\* from the old text and a '+' line from the new text.
NonTrivialBoth ==
    (UnifiedDone /\ oldText # newText) =>
       /\ diffOut # <<>>
       /\ HasLineFrom("-", oldLines)
       /\ HasLineFrom("+", newLines)

\* C6: for different texts the diff is not empty and has a '-' line from the
\* old text or a '+' line from the new text; it has a '-' line when a line of
\* the old text is deleted and a '+' line when a line of the new one is inserted.
NonTrivial ==
    (UnifiedDone /\ oldText # newText) =>
       /\ diffOut # <<>>
       /\ HasLineFrom("-", oldLines) \/ HasLineFrom("+", newLines)
       /\ OfKinds(edits, {"delete"}) # <<>> => HasLineFrom("-", oldLines)
       /\ OfKinds(edits, {"insert"}) # <<>> => HasLineFrom("+", newLines)

\* A pure addition: the diff has a '+' line and no line that starts with '-'.
NonTrivialWitness ==
    /\ UnifiedDone
    /\ oldText = <<"a", "\n">> /\ newText = <<"a", "\n", "b", "\n">>
    /\ HasLineFrom("+", newLines)
    /\ \A i \in 1..Len(hunkLines) : hunkLines[i][1] # "-"

(***************************************************************************)
(* Properties of the run of every rule.                                    *)
(***************************************************************************)
\* C11: with insert_final_newline the written text ends with exactly one
\* newline: it is not empty, ends with a newline and not with two.
FinalNewlineOnce ==
    (pc = "written" /\ cfg.InsertFinalNewline) =>
       /\ HasSuffix(out, <<"\n">>)
       /\ ~HasSuffix(out, <<"\n", "\n">>)

\* The Raw texts of the banner and section-header nodes of ns, in order.
bannerRaws(ns) ==
    LET bs == SelectSeq(ns, LAMBDA n : n.Type \in {"BannerComment", "SectionHeader"})
    IN  [i \in 1..Len(bs) |-> bs[i].Raw]

\* C12: when preserve_banner_comments runs, and after it, every banner and
\* section-header node has the Raw text the parser gave it.
BannersUnaltered ==
    (pc = "run" /\ pass = 1 /\ ruleIdx >= Len(FormatRules)) =>
       bannerRaws(nodes) = bannerRaws(Parse(src))

(***************************************************************************)
(* Frame properties of the rules: node objects are told apart by ptr.      *)
(***************************************************************************)
AnyRuleDone == pc = "formatted" /\ ~panicked

\* C13: no rule changes an input node: a node of the result that is a node
\* object of the input (a top-level node or a recipe of a rule) has the content
\* that object had before the call; what a rule changes is a clone.
InputNotMutated ==
    AnyRuleDone =>
       \A o \in WithChildren(nodes) : \A n \in WithChildren(input) :
          o.ptr = n.ptr => o = n

\* The trailing-whitespace rule changed the text of a node, on a clone.
InputNotMutatedWitness ==
    /\ AnyRuleDone /\ applied = "trim_trailing_whitespace"
    /\ Len(nodes) = Len(input)
    /\ \E i \in 1..Len(input) :
         /\ nodes[i].Raw # input[i].Raw
         /\ nodes[i].ptr # input[i].ptr
         /\ \A j \in 1..Len(nodes) : nodes[j].ptr # input[i].ptr

\* The content of a node: the node without the addresses of it and its children.
RECURSIVE Content(_)
Content(n) ==
    [n EXCEPT !.ptr = <<>>,
              !.Children = [i \in 1..Len(n.Children) |-> Content(n.Children[i])]]

\* o is a copy made from the node object n.
IsCloneOf(o, n) == Len(o.ptr) > Len(n.ptr) /\ SubSeq(o.ptr, 1, Len(n.ptr)) = n.ptr

\* C14: a node the rule does not change is in the result as the same node
\* object: no node of the result is a copy of an input node with its content.
IdentityPreserved ==
    AnyRuleDone =>
       \A i \in 1..Len(nodes) : \A j \in 1..Len(input) :
          IsCloneOf(nodes[i], input[j]) => Content(nodes[i]) # Content(input[j])

\* The rule called name is switched off by the configuration c.
Disabled(name, c) ==
    CASE name = "trim_trailing_whitespace" -> ~c.TrimTrailingWhitespace
      [] name = "insert_final_newline" -> ~c.InsertFinalNewline
      [] name = "max_blank_lines" -> c.MaxBlankLines < 0
      [] name = "assignment_spacing" -> c.AssignmentSpacing = "preserve"
      [] name = "align_assignments" -> ~c.AlignAssignments
      [] name = "align_backslash_continuations" -> ~c.AlignBackslashContinuations
      [] name = "space_after_comment" -> ~c.SpaceAfterComment
      [] name = "indent_conditionals" -> ~c.IndentConditionals \/ c.ConditionalIndent <= 0
      [] OTHER -> FALSE

\* C15: the Format of a rule that is switched off returns its input: the same
\* node objects in the same order, none of them changed.
DisabledIsIdentity ==
    (AnyRuleDone /\ Disabled(applied, cfg)) => nodes = input

\* indent_conditionals is on with width 0, on a node inside a conditional block.
DisabledIsIdentityWitness ==
    /\ AnyRuleDone /\ applied = "indent_conditionals"
    /\ cfg.IndentConditionals /\ cfg.ConditionalIndent <= 0
    /\ Len(input) >= 2
    /\ input[1].Type = "Conditional" /\ isConditionalOpen(input[1].Fields.Directive)
    /\ input[2].Type = "BannerComment"
    /\ nodes = input

(***************************************************************************)
(* The order of the rules in the run.                                      *)
(***************************************************************************)
\* The order of docs/RULES.md, "Rule Execution Order".
DocumentedOrder ==
    <<"trim_trailing_whitespace", "insert_final_newline", "max_blank_lines",
      "assignment_spacing", "align_assignments", "align_backslash_continuations",
      "space_after_comment", "indent_conditionals", "preserve_banner_comments">>

\* C16: Run applies the rules in the documented order, align_assignments right
\* after assignment_spacing and preserve_banner_comments last: the k-th rule that
\* ran is the k-th of that order, and all of them ran when the text is written.
RunsInDocumentedOrder ==
    /\ (pc \in {"run", "written"} /\ ruleIdx > 1) =>
          /\ ruleIdx - 1 <= Len(DocumentedOrder)
          /\ applied = DocumentedOrder[ruleIdx - 1]
    /\ pc = "written" => ruleIdx - 1 = Len(DocumentedOrder)

(***************************************************************************)
(* The shape of the tree Parse builds.                                     *)
(***************************************************************************)
ParseDone == pc = "run" /\ ruleIdx = 1 /\ pass = 1 /\ ~panicked

\* No recipe at top level, children only under rules, and only recipes as children.
RecipesUnderRules ==
    \A i \in 1..Len(nodes) :
        /\ nodes[i].Type # "Recipe"
        /\ nodes[i].Children # <<>> => nodes[i].Type = "Rule"
        /\ \A k \in 1..Len(nodes[i].Children) : nodes[i].Children[k].Type = "Recipe"

\* Each recipe hangs under the nearest rule node before it in the source.
NearestRuleOwns ==
    \A i \in 1..Len(nodes) : \A k \in 1..Len(nodes[i].Children) :
        LET r == nodes[i].Children[k]
        IN  /\ nodes[i].Line < r.Line
            /\ \A j \in 1..Len(nodes) :
                  nodes[j].Type = "Rule" =>
                      ~(nodes[i].Line < nodes[j].Line /\ nodes[j].Line < r.Line)

\* The top-level nodes of source lines that start with a tab, hold more than
\* white space or a comment and are not continued.
TabLedTop ==
    {i \in 1..Len(nodes) :
        LET l == lines[nodes[i].Line]
        IN  /\ HasPrefix(l, <<"\t">>)
            /\ ~hasContinuation(l)
            /\ TrimSpace(l) # <<>>
            /\ ~HasPrefix(TrimSpace(l), <<"#">>)}

\* The kind the line of node n gets outside the context of a rule.
KindOutsideRule(n) ==
    classifyLine(FALSE, joinContinuations(lines, n.Line - 1).joined, n.Raw).node.Type

OverrideForm(i) ==
    LET l == lines[nodes[i].Line]
        f == Fields(l)
    IN  /\ ~hasContinuation(l)
        /\ ~HasPrefix(l, <<"\t">>)
        /\ Len(f) \in {3, 4}
        /\ f[1] = kwOverride
        /\ \A k \in 1..Len(assignOps) : ~Contains(f[2], assignOps[k])
        /\ \E k \in 1..Len(assignOps) : f[3] = assignOps[k]

\* C18: Parse makes of a line "override NAME <op> value" an Assignment whose
\* VarName is "override NAME", with the operator and the value in their fields,
\* and no other Assignment has a name that holds white space.
OverrideIsAssignment ==
    ParseDone =>
        \A i \in 1..Len(nodes) :
            /\ OverrideForm(i) =>
                  LET f == Fields(lines[nodes[i].Line])
                  IN  /\ nodes[i].Type = "Assignment"
                      /\ nodes[i].Fields.VarName = kwOverride \o <<" ">> \o f[2]
                      /\ nodes[i].Fields.AssignOp = f[3]
                      /\ nodes[i].Fields.VarValue = (IF Len(f) = 4 THEN f[4] ELSE <<>>)
            /\ (nodes[i].Type = "Assignment"
                  /\ ContainsAny(nodes[i].Fields.VarName, {" ", "\t"})) =>
                  /\ Len(Fields(nodes[i].Fields.VarName)) = 2
                  /\ Fields(nodes[i].Fields.VarName)[1] = kwOverride

(***************************************************************************)
(* The hunks of the unified diff.                                          *)
(***************************************************************************)
Least(S) == CHOOSE i \in S : \A j \in S : i <= j
Greatest(S) == CHOOSE i \in S : \A j \in S : j <= i

\* The positions of the changed entries of an edit list.
changedAt(es) == {i \in 1..Len(es) : es[i].kind # "equal"}

\* Where the entries of hunk h lie in the edit script.
hunkAt(h) ==
    {s \in 1..Len(edits) :
        /\ s + Len(h.edits) - 1 <= Len(edits)
        /\ SubSeq(edits, s, s + Len(h.edits) - 1) = h.edits}

\* Hunk h has a changed line, at most contextLines unchanged lines before the
\* first and after the last one, and fewer only at an end of the edit script.
ContextClamped(h) ==
    /\ changedAt(h.edits) # {}
    /\ \E s \in hunkAt(h) :
         LET before == Least(changedAt(h.edits)) - 1
             after == Len(h.edits) - Greatest(changedAt(h.edits))
         IN  /\ before <= 3 /\ (before < 3 => s = 1)
             /\ after <= 3 /\ (after < 3 => s + Len(h.edits) - 1 = Len(edits))

\* The printed lines of the k-th hunk: its header line and the lines up to the
\* next header line.
printedHunk(k) ==
    LET heads == {i \in 1..Len(hunkLines) : hunkLines[i][1] = "@"}
        nth(j) == CHOOSE i \in heads : Cardinality({h \in heads : h < i}) = j - 1
        from == nth(k)
        to == IF k < Cardinality(heads) THEN nth(k + 1) - 1 ELSE Len(hunkLines)
    IN  SubSeq(hunkLines, from, to)

signed(ls, signs) == Cardinality({i \in 2..Len(ls) : ls[i][1] \in signs})

\* The printed k-th hunk: a header with the counts of its ' '/'-' and ' '/'+'
\* lines and the 1-based positions of its first old and new line, and one line
\* per entry, the sign and the line of the file, ended by a newline.
HunkPrinted(k) ==
    LET ls == printedHunk(k)
        es == hunks[k].edits
        olds == OfKinds(es, {"equal", "delete"})
        news == OfKinds(es, {"equal", "insert"})
    IN  /\ Len(ls) = 1 + Len(es)
        /\ \E os \in 1..(Len(oldLines) + 1), ns \in 1..(Len(newLines) + 1) :
             /\ ls[1] = <<"@", "@", " ", "-">> \o Itoa(os) \o <<",">>
                          \o Itoa(signed(ls, {" ", "-"}))
                          \o <<" ", "+">> \o Itoa(ns) \o <<",">>
                          \o Itoa(signed(ls, {" ", "+"})) \o <<" ", "@", "@", "\n">>
             /\ \A i \in 1..Len(olds) : olds[i].oldIdx + 1 = os + i - 1
             /\ \A i \in 1..Len(news) : news[i].newIdx + 1 = ns + i - 1
        /\ \A i \in 1..Len(es) :
             LET l == IF es[i].kind = "insert" THEN newLines[es[i].newIdx + 1]
                      ELSE oldLines[es[i].oldIdx + 1]
                 sign == CASE es[i].kind = "equal" -> " "
                           [] es[i].kind = "delete" -> "-"
                           [] es[i].kind = "insert" -> "+"
             IN  /\ ls[i + 1] \in {<<sign>> \o l, <<sign>> \o l \o <<"\n">>}
                 /\ HasSuffix(ls[i + 1], <<"\n">>)
                 /\ Len(SelectSeq(ls[i + 1], LAMBDA c : c = "\n")) = 1

\* C19: every hunk of the diff has at most 3 lines of context before its first
\* and after its last changed line (fewer only at an end of the files), a header
\* whose counts are the numbers of its ' '/'-' and ' '/'+' lines and whose
\* starts are the 1-based positions of its first old and new line, and every
\* line written ends with a newline.
HunksWellFormed ==
    (UnifiedDone /\ oldText # newText) =>
        /\ Len(hunks) >= 1
        /\ Cardinality({i \in 1..Len(hunkLines) : hunkLines[i][1] = "@"}) = Len(hunks)
        /\ HasSuffix(diffOut, <<"\n">>)
        /\ \A k \in 1..Len(hunks) : ContextClamped(hunks[k]) /\ HunkPrinted(k)

\* A change with more than contextLines unchanged lines on either side: the
\* hunk starts after the first line of both files and stops before the last.
HunksWellFormedWitness ==
    /\ UnifiedDone
    /\ Len(hunks) = 1
    /\ Len(edits) = 2 * MaxPad + 2
    /\ hunks[1].oldStart = MaxPad - contextLines
    /\ hunks[1].oldCount = 2 * contextLines + 1
    /\ Len(hunks[1].edits) = 2 * contextLines + 2

\* The first and the last position in the edit script of the entries of the
\* k-th hunk.
hunkFrom(k) == Least(hunkAt(hunks[k]))
hunkTo(k) == hunkFrom(k) + Len(hunks[k].edits) - 1

\* The changed entries that have a later one, and the number of unchanged
\* entries between such an entry and the next changed one.
nextChanged(i) == Least({j \in changedAt(edits) : j > i})
gapAfter(i) == nextChanged(i) - i - 1
Followed == {i \in changedAt(edits) : \E j \in changedAt(edits) : j > i}

\* Two changes lie in one hunk exactly when at most limit unchanged lines lie
\* between them; the hunks come in file order, no entry of the script lies in
\* two of them, and every change lies in one.
MergedUpTo(limit) ==
    /\ \A k \in 1..Len(hunks) : hunkAt(hunks[k]) # {}
    /\ \A k \in 1..(Len(hunks) - 1) : hunkTo(k) < hunkFrom(k + 1)
    /\ \A i \in changedAt(edits) :
          \E k \in 1..Len(hunks) : hunkFrom(k) <= i /\ i <= hunkTo(k)
    /\ \A i \in Followed :
          (gapAfter(i) <= limit) <=>
             (\E k \in 1..Len(hunks) :
                 hunkFrom(k) <= i /\ nextChanged(i) <= hunkTo(k))

\* C20 as stated: changes with at most 2 * contextLines = 6 unchanged lines
\* between them are printed in one hunk, changes further apart in separate
\* hunks, in file order and without a line printed twice.
MergedWithinTwiceContext ==
    (UnifiedDone /\ oldText # newText) => MergedUpTo(2 * contextLines)

\* C20: changes with at most 2 * contextLines - 1 = 5 unchanged lines between
\* them are printed in one hunk, changes with 6 or more in separate hunks, in
\* file order and without a line printed twice.
MergedWhenContextsOverlap ==
    (UnifiedDone /\ oldText # newText) => MergedUpTo(2 * contextLines - 1)

\* Two changes with exactly 2 * contextLines unchanged lines between them: two
\* hunks, the second starting right after the end of the first.
MergedWhenContextsOverlapWitness ==
    /\ UnifiedDone
    /\ Len(hunks) = 2
    /\ \E i \in Followed : gapAfter(i) = 2 * contextLines
    /\ hunkFrom(2) = hunkTo(1) + 1

(***************************************************************************)
(* Properties of the runner.                                               *)
(***************************************************************************)
Exited == rpc = "exited"

\* The code runFile owes for file f: 2 for a file that cannot be read or, in
\* write mode, cannot be written with its new text, 1 in check or diff mode
\* for a text that formatting changes, else 0.
CodeFor(f) ==
    IF ~f.exists THEN ExitError
    ELSE LET output == formatInput(f.content, cfg, FormatRules)
         IN  IF opts.Check \/ opts.Diff
             THEN (IF output # f.content THEN ExitFormatDiff ELSE ExitOK)
             ELSE IF output # f.content /\ ~f.writable THEN ExitError
             ELSE ExitOK

MaxCode(cs) ==
    IF \E i \in 1..Len(cs) : cs[i].code = ExitError THEN ExitError
    ELSE IF \E i \in 1..Len(cs) : cs[i].code = ExitFormatDiff THEN ExitFormatDiff
    ELSE ExitOK

\* C21: Run processes every file in order, also after a file failed, and
\* returns the maximum of the files' codes (2 for a file that could not be read
\* or written, else 1 in check or diff mode for a file that formatting would
\* change, else 0); when the configuration cannot be loaded it returns 2 and no
\* file is read.
ExitCodeIsMaximum ==
    /\ [](Exited /\ loadErr =>
            exitCode = ExitError /\ calls = <<>> /\ pc = "off" /\ stdout = <<>>)
    /\ []((Exited /\ ~loadErr /\ Len(opts.Files) > 0) =>
            /\ [i \in 1..Len(calls) |-> calls[i].path] = opts.Files
            /\ exitCode = MaxCode(calls))
    /\ [][calls' # calls =>
            /\ calls' = Append(calls, calls'[Len(calls')])
            /\ calls'[Len(calls')].path = opts.Files[fileIdx]
            /\ calls'[Len(calls')].code = CodeFor(disk[opts.Files[fileIdx]])]_vars

\* Two files in check or diff mode, the first missing and the second not
\* formatted: codes 2 and 1, and Run returns 2.
ExitCodeIsMaximumWitness ==
    /\ Exited /\ ~loadErr
    /\ Len(calls) = 2
    /\ calls[1].code = ExitError /\ calls[2].code = ExitFormatDiff
    /\ exitCode = ExitError

\* C22: a file is written only with -w: without -w, --check and --diff the
\* formatted text goes to Stdout and the disk keeps its content, and with
\* --check or --diff no file is ever written.
WrittenOnlyWithW ==
    /\ [][disk' # disk => opts.Write /\ ~opts.Check /\ ~opts.Diff]_vars
    /\ [][(calls' # calls /\ disk[opts.Files[fileIdx]].exists
             /\ ~opts.Write /\ ~opts.Check /\ ~opts.Diff) =>
            stdout' = stdout \o formatInput(disk[opts.Files[fileIdx]].content, cfg, FormatRules)]_vars

\* C23: with --check and --diff together, a file whose formatted text differs
\* from its content gets its unified diff printed to Stdout and the code 1, and
\* a file that would not change gets nothing printed and the code 0; likewise
\* for the text read from stdin.
CheckAndDiffCombine ==
    /\ [][(calls' # calls /\ opts.Check /\ opts.Diff /\ disk[opts.Files[fileIdx]].exists) =>
            LET f == disk[opts.Files[fileIdx]]
                changes == formatInput(f.content, cfg, FormatRules) # f.content
                printed == SubSeq(stdout', Len(stdout) + 1, Len(stdout'))
            IN  /\ SubSeq(stdout', 1, Len(stdout)) = stdout
                /\ changes => /\ HasPrefix(printed, fileHeader(opts.Files[fileIdx]))
                              /\ calls'[Len(calls')].code = ExitFormatDiff
                /\ ~changes => /\ printed = <<>>
                               /\ calls'[Len(calls')].code = ExitOK]_vars
    /\ []((Exited /\ ~loadErr /\ Len(opts.Files) = 0 /\ stdin.readable
             /\ opts.Check /\ opts.Diff) =>
            LET changes == formatInput(stdin.content, cfg, FormatRules) # stdin.content
            IN  /\ changes => HasPrefix(stdout, fileHeader(StdinName)) /\ exitCode = ExitFormatDiff
                /\ ~changes => stdout = <<>> /\ exitCode = ExitOK)

(***************************************************************************)
(* The comment rule.                                                       *)
(***************************************************************************)
\* A comment with the single prefix "#" whose "#" is followed at once by
\* something that is neither a space nor the "!" of a shebang.
Unspaced(n) ==
    LET t == TrimSpace(n.Raw)
    IN  /\ n.Type = "Comment" /\ n.Fields.Prefix = <<"#">>
        /\ Len(t) >= 2 /\ t[1] = "#" /\ t[2] \notin {" ", "!"}

\* C24: CommentSpacing rewrites exactly the comments with the single prefix
\* "#" whose "#" is followed at once by content other than a space, to "# "
\* and that content; comments with the prefix "##", section headers, banners,
\* shebangs, the empty "#", comments with a space after "#" and all other
\* nodes come back as the same node object.
CommentSpacingExact ==
    (RuleDone("space_after_comment") /\ cfg.SpaceAfterComment) =>
        /\ Len(nodes) = Len(input)
        /\ \A i \in 1..Len(input) :
              LET t == TrimSpace(input[i].Raw)
              IN  IF Unspaced(input[i])
                  THEN /\ nodes[i].Raw = <<"#", " ">> \o SubSeq(t, 2, Len(t))
                       /\ nodes[i].Type = "Comment"
                       /\ nodes[i].Fields.Prefix = <<"#">>
                       /\ nodes[i].Line = input[i].Line
                  ELSE nodes[i] = input[i]

\* "#c" becomes "# c" next to a comment that is kept: one with the prefix
\* "##", a shebang or an empty "#".
CommentSpacingExactWitness ==
    /\ RuleDone("space_after_comment") /\ cfg.SpaceAfterComment
    /\ Len(input) = 2
    /\ input[1].Raw = <<"#", "c">> /\ nodes[1].Raw = <<"#", " ", "c">>
    /\ input[2].Type = "Comment" /\ nodes[2] = input[2]
    /\ ~HasPrefix(TrimSpace(input[2].Raw), <<"#", " ">>)

(***************************************************************************)
(* The nesting level of the conditional rule.                              *)
(***************************************************************************)
IsOpen(n) == n.Type = "Conditional" /\ n.Fields.Directive \in {kwIfeq, kwIfneq, kwIfdef, kwIfndef}
IsElse(n) == n.Type = "Conditional" /\ n.Fields.Directive = directiveElse
IsEndif(n) == n.Type = "Conditional" /\ n.Fields.Directive = directiveEndif

\* The nesting level before node i of ns: an opening directive raises it, an
\* endif lowers it, never below 0.
RECURSIVE LevelAt(_, _)
LevelAt(ns, i) ==
    IF i <= 1 THEN 0
    ELSE LET l == LevelAt(ns, i - 1)
         IN  IF IsOpen(ns[i - 1]) THEN l + 1
             ELSE IF IsEndif(ns[i - 1]) THEN (IF l > 0 THEN l - 1 ELSE 0)
             ELSE l

\* The level node i of ns is rendered at.
RenderLevel(ns, i) ==
    LET l == LevelAt(ns, i)
    IN  IF IsElse(ns[i]) \/ IsEndif(ns[i]) THEN (IF l > 0 THEN l - 1 ELSE 0) ELSE l

\* The number of characters the rule put before the Raw of node i.
Indent(i) == Len(nodes[i].Raw) - Len(input[i].Raw)

\* Every else and endif of ns has an opening directive before it that is still
\* open, and every opening directive is closed.
ProperlyNested(ns) ==
    /\ \A i \in 1..Len(ns) : (IsElse(ns[i]) \/ IsEndif(ns[i])) => LevelAt(ns, i) > 0
    /\ Cardinality({i \in 1..Len(ns) : IsOpen(ns[i])})
         = Cardinality({i \in 1..Len(ns) : IsEndif(ns[i])})

\* The opening directive that the else, endif or body node i belongs to.
Opening(ns, i) ==
    LET l == IF IsElse(ns[i]) \/ IsEndif(ns[i]) THEN RenderLevel(ns, i)
             ELSE RenderLevel(ns, i) - 1
        before == {j \in 1..(i - 1) : IsOpen(ns[j]) /\ LevelAt(ns, j) = l}
    IN  CHOOSE j \in before : \A k \in before : k <= j

\* C25: ConditionalIndent renders an opening directive at the current level
\* and raises the level, an else one level below, an endif at the lowered
\* level, which is never negative, and every other node at the current level,
\* level times conditional_indent spaces before its Raw.  With properly nested
\* conditionals an else and an endif are indented like their opening directive,
\* a body node by one width more, and the level is 0 at the end; an else or an
\* endif at level 0 is left as it is.
LevelNeverNegative ==
    (RuleDone("indent_conditionals") /\ cfg.IndentConditionals /\ cfg.ConditionalIndent > 0) =>
        /\ Len(nodes) = Len(input)
        /\ \A i \in 1..Len(input) :
              /\ RenderLevel(input, i) >= 0
              /\ nodes[i].Raw = Repeat(<<" ">>, RenderLevel(input, i) * cfg.ConditionalIndent)
                                  \o input[i].Raw
              /\ RenderLevel(input, i) = 0 => nodes[i] = input[i]
        /\ ProperlyNested(input) =>
              /\ LevelAt(input, Len(input) + 1) = 0
              /\ \A i \in 1..Len(input) :
                    /\ (IsElse(input[i]) \/ IsEndif(input[i])) =>
                          Indent(i) = Indent(Opening(input, i))
                    /\ (~IsOpen(input[i]) /\ ~IsElse(input[i]) /\ ~IsEndif(input[i])
                          /\ LevelAt(input, i) > 0) =>
                          Indent(i) = Indent(Opening(input, i)) + cfg.ConditionalIndent

\* Two nested blocks with an else: the inner body is indented by two widths
\* and the last endif is not indented.
LevelNeverNegativeWitness ==
    /\ RuleDone("indent_conditionals") /\ cfg.IndentConditionals /\ cfg.ConditionalIndent > 0
    /\ src = NestedText
    /\ ProperlyNested(input)
    /\ Indent(3) = 2 * cfg.ConditionalIndent
    /\ Indent(4) = cfg.ConditionalIndent
    /\ Indent(7) = 0

(***************************************************************************)
(* Define blocks.                                                          *)
(***************************************************************************)
\* Every node of the tree, the recipes under the rules included.
AllNodes == WithChildren(nodes)

\* The logical line of node n opens a define block.
OpensDefine(n) ==
    LET t == TrimSpace(joinContinuations(lines, n.Line - 1).joined)
    IN  t = kwDefine \/ HasPrefix(t, kwDefine \o <<" ">>)

\* The number (1-based) of the last line of the block node n opens: the first
\* line after the define line whose trimmed text is endef, else the last line.
BlockEnd(n) ==
    LET from == n.Line + joinContinuations(lines, n.Line - 1).count
        ends == {e \in from..Len(lines) : TrimSpace(lines[e]) = kwEndef}
    IN  IF ends = {} THEN Len(lines) ELSE CHOOSE e \in ends : \A f \in ends : e <= f

\* One Raw node per define block, with the lines of the block verbatim and the
\* number of the define line; no node for a line of the body; a node for the
\* line after the block.
DefineCaptured ==
    \A n \in AllNodes :
        OpensDefine(n) =>
            /\ \E i \in 1..Len(nodes) : nodes[i] = n
            /\ n.Type = "Raw"
            /\ n.Raw = Join(SubSeq(lines, n.Line, BlockEnd(n)), <<"\n">>)
            /\ \A m \in AllNodes : ~(n.Line < m.Line /\ m.Line <= BlockEnd(n))
            /\ BlockEnd(n) < Len(lines) => \E m \in AllNodes : m.Line = BlockEnd(n) + 1

\* The define line is the last line of the input.
DefineAtEnd ==
    /\ Len(nodes) > 0
    /\ OpensDefine(nodes[Len(nodes)])
    /\ nodes[Len(nodes)].Line + joinContinuations(lines, nodes[Len(nodes)].Line - 1).count
         > Len(lines)

\* C26 as stated: Parse makes one Raw node of a define block, from the define
\* line to the first endef line or the end of the input, classifies no line of
\* the body and classifies the line after endef; the inDefine flag is false
\* afterwards.
DefineCapturedFlagCleared ==
    ParseDone => DefineCaptured /\ ~inDefine

\* C26: Parse makes one Raw node of a define block, from the define line to
\* the first endef line or the end of the input, classifies no line of the body
\* and classifies the line after endef; the inDefine flag is false afterwards
\* unless the define line is the last line of the input.
DefineCapture ==
    ParseDone => DefineCaptured /\ (inDefine <=> DefineAtEnd)

\* A define block closed by an indented endef, and a rule after it.
DefineCaptureWitness ==
    /\ ParseDone
    /\ Len(nodes) = 2
    /\ OpensDefine(nodes[1]) /\ BlockEnd(nodes[1]) = 2 /\ lines[2] # kwEndef
    /\ nodes[2].Type = "Rule" /\ nodes[2].Line = 3
    /\ ~inDefine

(***************************************************************************)
(* The rule context of the parser.                                         *)
(***************************************************************************)
\* The node types that leave the rule context as it is.
KeepsContext == {"Comment", "SectionHeader", "BannerComment"}

\* A rule node has been seen and only comment, banner and section-header nodes
\* follow it at top level (the recipes hang under the rule).
AfterRule(ns) ==
    LET others == {i \in 1..Len(ns) : ns[i].Type \notin KeepsContext}
    IN  others # {} /\ ns[Greatest(others)].Type = "Rule"

\* Every recipe was taken in the rule context of its rule: between the rule and
\* the recipe there are only comments, banners, section headers and recipes.
RecipesInContext ==
    \A i \in 1..Len(nodes) : \A k \in 1..Len(nodes[i].Children) :
        /\ nodes[i].Type = "Rule"
        /\ \A j \in 1..Len(nodes) :
              (nodes[i].Line < nodes[j].Line /\ nodes[j].Line < nodes[i].Children[k].Line)
                  => nodes[j].Type \in KeepsContext

\* No line classified as a recipe was left without a rule: addNode turns such a
\* node into a Raw node that still carries the recipe's text.
NoOrphanRecipe ==
    \A i \in 1..Len(nodes) : nodes[i].Type = "Raw" => nodes[i].Fields.Text = <<>>

\* C27: the rule-context flag is true exactly when a rule node has been seen
\* and only recipe, comment, banner or section-header nodes have followed it;
\* so recipes are taken only in that context, never after a blank line, and
\* every line classified as a recipe finds its rule.
RuleContextMachine ==
    ~panicked => /\ inRule = AfterRule(nodes)
                 /\ RecipesInContext
                 /\ NoOrphanRecipe

\* A rule, a comment and a recipe that hangs under the rule across the comment.
RuleContextMachineWitness ==
    /\ ParseDone
    /\ Len(nodes) = 2
    /\ nodes[1].Type = "Rule" /\ nodes[2].Type = "Comment"
    /\ Len(nodes[1].Children) = 1 /\ nodes[1].Children[1].Line = 3
    /\ inRule

(***************************************************************************)
(* Totality of the rules.                                                  *)
(***************************************************************************)
\* C28: for every rule and every node sequence, the nodes described by their
\* Fields alone included, Format returns a node sequence and never aborts.
RulesAreTotal ==
    pc = "formatted" => ~panicked

(***************************************************************************)
(* Trailing white space after the whole pipeline.                          *)
(***************************************************************************)
\* Line l ends with a space or a tab.
EndsBlank(l) == l # <<>> /\ l[Len(l)] \in {" ", "\t"}

\* C29: with trim_trailing_whitespace enabled no line of the text written
\* after the registered pipeline ends with a space or a tab, blank lines inside
\* conditional blocks included.
NoTrailingWhitespaceWritten ==
    (pc = "written" /\ cfg.TrimTrailingWhitespace) =>
        \A i \in 1..Len(Split(out, "\n")) : ~EndsBlank(Split(out, "\n")[i])

(***************************************************************************)
(* The Raw of blank-line nodes.                                            *)
(***************************************************************************)
\* C30: every node Parse classifies as a blank line has a Raw of spaces and
\* tabs only, so dropping blank-line nodes deletes no other character.
BlankLineRawIsBlank ==
    \A n \in WithChildren(nodes) :
        n.Type = "BlankLine" => \A k \in 1..Len(n.Raw) : n.Raw[k] \in {" ", "\t"}

====
